---- MODULE Spec2Model ----
(***************************************************************************)
(* Telemetry collection pipeline of the MBTA Transit Telemetry Platform:  *)
(* the TelemetryCollector (backend/collector.py), the MBTAClient         *)
(* (backend/services/mbta_client.py) and the store (backend/database.py),  *)
(* with the analytics and the API of backend/, and the earlier program of  *)
(* src/: RouteAnalyzer (src/analytics/route_analyzer.py) and MbtACollector *)
(* (src/collectors/mbta_collector.py).                                     *)
(***************************************************************************)
EXTENDS Integers, Sequences, FiniteSets, TLC

VARIABLES
    is_running,     \* TelemetryCollector.is_running
    scheduler,      \* AsyncIOScheduler: [state, jobs]
    slots,          \* executor instances of job telemetry_collection (one coroutine each)
    vehicles,       \* table vehicles (CurrentVehicleState), rows in insertion order
    events,         \* table telemetry_events, rows in insertion order
    route_delays,   \* table route_delays
    now,            \* datetime.utcnow()
    last,           \* how the most recent cycle ended (cleared when a cycle starts)
    call,           \* a direct call get_vehicles(retries=r) and its history
    parse,          \* a call of parse_vehicle_data: its argument and its result
    hw,             \* a request GET /analytics/headway and its response
    bunch,          \* a call of detect_bunching and the alerts it returned
    api,            \* the most recent response of the speed detector, of GET /alerts
                    \* or of GET /health
    reqs,           \* the requests GET /routes/{route_id}/delays, one per slot
    calc,           \* the most recent call of the delay calculator, or request,
                    \* that ended
    db,             \* the database of src/: the committed rows of its tables
    session,        \* MbtACollector.session: the rows merged and not yet committed
    tasks,          \* the coroutines collect_all gathers
    analyzer        \* the most recent call of a RouteAnalyzer method and its result

vars == <<is_running, scheduler, slots, vehicles, events, route_delays, now, last,
          call, parse, hw, bunch, api, reqs, calc, db, session, tasks, analyzer>>

\* the state of the calls made from outside the collection cycle
qvars == <<parse, hw, bunch, api, reqs, calc>>

\* the state of the collector, its scheduler and the client call
cvars == <<is_running, scheduler, slots, last, call>>

\* the state of the collector and of the analyzer of src/
lvars == <<db, session, tasks, analyzer>>

----------------------------------------------------------------------------
(* Bounds of the model *)

\* executor slots the model provides (a cycle runs in one slot)
NSlots == 2
\* vehicle records in one upstream response
MaxItems == 2
\* largest value of the clock
MaxTime == 1
\* rows the telemetry_events table can hold before an insert fails (disk full)
MaxEvents == 3
\* largest retries argument of a direct get_vehicles call
MaxRetries == 3

----------------------------------------------------------------------------
(* Program constants *)

\* max_instances of the scheduled job
MaxInstances == 1
\* get_vehicles(retries=3)
Retries == 3
\* interval of the job, seconds
IntervalSeconds == 10

JobId == "telemetry_collection"

\* JSON null / Python None, an absent dict key, and a missing item id
Null == "<null>"
Absent == "<absent>"

Pow2(n) == 2 ^ n

----------------------------------------------------------------------------
(* Upstream responses: the inputs of a cycle *)

VehicleIds == {"v1", "v2"}

ItemAttrs ==
    { [latitude |-> 42, longitude |-> 71, bearing |-> 90, speed |-> 10,
       current_status |-> "IN_TRANSIT_TO", updated_at |-> "u1"],
      [latitude |-> 43, longitude |-> 72, bearing |-> 180, speed |-> 70,
       current_status |-> "STOPPED_AT", updated_at |-> "u2"] }

\* a vehicle resource: id (Absent: no "id" key), the id of its route
\* relationship (Absent: no relationship) and its attributes
VehicleItems ==
    { it \in [id : VehicleIds, route : {"Red"}, attributes : ItemAttrs] :
        it.id = "v1" \/ it.attributes.current_status = "IN_TRANSIT_TO" }

\* a vehicle resource without "id", alone and after a well-formed one
MalformedData ==
    LET bad == { [id |-> Absent, route |-> "Red", attributes |-> a] :
                   a \in {b \in ItemAttrs : b.current_status = "STOPPED_AT"} }
    IN  { <<b>> : b \in bad } \cup
        { <<[b EXCEPT !.id = "v1"], b>> : b \in bad }

\* an included route resource
IncludedChoices ==
    { << [type |-> "route", id |-> "Red", long_name |-> "Red Line", short_name |-> Absent] >> }

SeqsUpTo(S, n) == UNION { [1..k -> S] : k \in 0..n }

\* the JSON documents the upstream can answer with
Responses ==
    { [keys |-> {}, data |-> <<>>, included |-> <<>>],
      [keys |-> {"jsonapi"}, data |-> <<>>, included |-> <<>>] }
    \cup
    { [keys |-> {"data"} \cup (IF inc = <<>> THEN {} ELSE {"included"}),
       data |-> d, included |-> inc] :
         d \in SeqsUpTo(VehicleItems, MaxItems) \cup MalformedData,
         inc \in IncludedChoices }

\* what one request can end in
Outcomes == {"ok", "bad_json", "429", "5xx", "4xx", "timeout", "error"}

\* storage faults: the write of a cycle that fails
Faults == {"none", "insert_vehicles", "insert_events", "commit"}

----------------------------------------------------------------------------
(* MBTAClient.parse_vehicle_data *)

Truthy(s) == s \notin {Absent, Null, ""}

\* d.get(key, default) on a value that is Absent when the key is missing
Get(v, default) == IF v = Absent THEN default ELSE v

\* item['attributes'].get('long_name') or item['attributes'].get('short_name', item['id'])
RouteDisplayName(item) ==
    IF Truthy(Get(item.long_name, Null))
    THEN item.long_name
    ELSE Get(item.short_name, item.id)

\* included_routes: the last included route with this id wins
IncludedRoutes(included) ==
    [ rid \in { included[i].id : i \in { j \in 1..Len(included) : included[j].type = "route" } } |->
        LET idx == { j \in 1..Len(included) : included[j].type = "route" /\ included[j].id = rid }
            m   == CHOOSE j \in idx : \A k \in idx : k <= j
        IN  RouteDisplayName(included[m]) ]

ParseItem(item, included_routes) ==
    LET route_id   == Get(item.route, Null)
        route_name == IF route_id \in DOMAIN included_routes
                      THEN included_routes[route_id] ELSE route_id
    IN  [vehicle_id |-> item.id, route_id |-> route_id, route_name |-> route_name,
         latitude |-> item.attributes.latitude, longitude |-> item.attributes.longitude,
         bearing |-> item.attributes.bearing, speed |-> item.attributes.speed,
         current_status |-> item.attributes.current_status,
         updated_at |-> item.attributes.updated_at]

\* the result: [raised, snaps]; vehicle_item['id'] raises KeyError on an item without id
parse_vehicle_data(api_response) ==
    IF "data" \notin api_response.keys
    THEN [raised |-> FALSE, snaps |-> <<>>]
    ELSE LET inc == IF "included" \in api_response.keys
                    THEN IncludedRoutes(api_response.included) ELSE IncludedRoutes(<<>>)
             d   == api_response.data
         IN  IF \E i \in 1..Len(d) : d[i].id = Absent
             THEN [raised |-> TRUE, snaps |-> <<>>]
             ELSE [raised |-> FALSE,
                   snaps |-> [ i \in 1..Len(d) |-> ParseItem(d[i], inc) ]]

----------------------------------------------------------------------------
(* MBTAClient.get_vehicles: one pass of the retry loop *)

\* RateLimitWait without the doubling per attempt
RateLimitWaitFlat(attempt) == 5

\* wait after a 429 at this attempt
RateLimitWait(attempt) == Pow2(attempt) * 5

\* ServerErrorWait with the wait of the generic except clause
ServerErrorWaitAsOtherError(attempt) == Pow2(attempt)

\* wait after a 5xx at this attempt
ServerErrorWait(attempt) == Pow2(attempt) * 2

\* TimeoutWait with the wait of the generic except clause
TimeoutWaitAsOtherError(attempt) == Pow2(attempt)

\* wait after a request timeout at this attempt
TimeoutWait(attempt) == Pow2(attempt) * 2

\* wait after any other exception at this attempt
OtherErrorWait(attempt) == Pow2(attempt)

\* the except clause a failed attempt lands in: a response whose body is not
\* JSON makes response.json() raise, which the last clause catches
ExceptClause(outcome) ==
    CASE outcome \in {"5xx", "4xx"}      -> "HTTPStatusError"
      [] outcome = "timeout"             -> "TimeoutException"
      [] outcome \in {"error", "bad_json"} -> "Exception"
      [] OTHER                           -> "none"

\* RetryableStatus with every error status retried
RetryableStatusAny(outcome) == outcome \in {"5xx", "4xx"}

\* e.response.status_code >= 500
RetryableStatus(outcome) == outcome = "5xx"

\* what the loop body does with the outcome of request number attempt:
\* next is "sleep" (wait, then continue), "payload" (return response.json()),
\* "none" (return None) or "raise" (an exception leaves get_vehicles)
HandleResponse(attempt, retries, outcome) ==
    CASE outcome = "429" ->
            [next |-> "sleep", wait |-> RateLimitWait(attempt)]
      [] outcome = "ok" ->
            [next |-> "payload", wait |-> 0]
      [] ExceptClause(outcome) = "HTTPStatusError" ->
            IF RetryableStatus(outcome) /\ attempt < retries - 1
            THEN [next |-> "sleep", wait |-> ServerErrorWait(attempt)]
            ELSE [next |-> "none", wait |-> 0]
      [] ExceptClause(outcome) = "TimeoutException" ->
            IF attempt < retries - 1
            THEN [next |-> "sleep", wait |-> TimeoutWait(attempt)]
            ELSE [next |-> "none", wait |-> 0]
      [] ExceptClause(outcome) = "Exception" ->
            IF attempt < retries - 1
            THEN [next |-> "sleep", wait |-> OtherErrorWait(attempt)]
            ELSE [next |-> "none", wait |-> 0]
      [] OTHER ->
            [next |-> "raise", wait |-> 0]

\* LoopContinues with one pass too many
LoopContinuesOffByOne(attempt, retries) == attempt + 1 <= retries

\* for attempt in range(retries): is there another pass after this one
LoopContinues(attempt, retries) == attempt + 1 < retries

----------------------------------------------------------------------------
(* The store: tables, constraints and the transaction of one cycle *)

\* UniqueOK for a column declared without unique=True
UniqueNotEnforced(rows) == TRUE

\* Column(String, unique=True) on vehicles.vehicle_id
UniqueOK(rows) ==
    \A i, j \in 1..Len(rows) : rows[i].vehicle_id = rows[j].vehicle_id => i = j

\* ExistingIdx that takes the first row of the table for the vehicle
ExistingIdxFirstRow(rows, vid) == IF rows = <<>> THEN 0 ELSE 1

\* existing_vehicle_ids = {v.vehicle_id: v for v in db.query(Vehicle).all()}
ExistingIdx(rows, vid) ==
    LET idx == { i \in 1..Len(rows) : rows[i].vehicle_id = vid }
    IN  IF idx = {} THEN 0 ELSE CHOOSE i \in idx : \A k \in idx : k <= i

\* VehicleRow that does not store the speed
VehicleRowWithoutSpeed(snap, t) ==
    [vehicle_id |-> snap.vehicle_id, route_id |-> snap.route_id,
     route_name |-> snap.route_name, latitude |-> snap.latitude,
     longitude |-> snap.longitude, bearing |-> snap.bearing, speed |-> 0,
     current_status |-> snap.current_status, last_updated |-> t]

\* the Vehicle row written for snap in a cycle whose collection_time is t
VehicleRow(snap, t) ==
    [vehicle_id |-> snap.vehicle_id, route_id |-> snap.route_id,
     route_name |-> snap.route_name, latitude |-> snap.latitude,
     longitude |-> snap.longitude, bearing |-> snap.bearing, speed |-> snap.speed,
     current_status |-> snap.current_status, last_updated |-> t]

TelemetryRow(snap, t) ==
    [vehicle_id |-> snap.vehicle_id, route_id |-> snap.route_id,
     latitude |-> snap.latitude, longitude |-> snap.longitude, speed |-> snap.speed,
     current_status |-> snap.current_status, timestamp |-> t]

\* the for loop over vehicles_data from snapshot i on: st.work holds the loaded
\* rows with the in-place updates, st.to_insert the new rows, st.telemetry the events
RECURSIVE StageFrom(_, _, _, _, _)
StageFrom(snaps, i, existing, t, st) ==
    IF i > Len(snaps) THEN st
    ELSE LET snap == snaps[i]
             idx  == ExistingIdx(existing, snap.vehicle_id)
             st1  == IF idx # 0
                     THEN [st EXCEPT !.work[idx] = VehicleRow(snap, t),
                                     !.updated = @ + 1]
                     ELSE [st EXCEPT !.to_insert = Append(@, VehicleRow(snap, t))]
         IN  StageFrom(snaps, i + 1, existing, t,
                       [st1 EXCEPT !.telemetry = Append(@, TelemetryRow(snap, t))])

\* Stage with a collection_time that is not read from the clock
StageAtEpoch(snaps, rows, t) ==
    StageFrom(snaps, 1, rows, 0,
              [work |-> rows, to_insert |-> <<>>, telemetry |-> <<>>, updated |-> 0])

Stage(snaps, rows, t) ==
    StageFrom(snaps, 1, rows, t,
              [work |-> rows, to_insert |-> <<>>, telemetry |-> <<>>, updated |-> 0])

\* the write of the transaction that fails, or "none": an injected fault, the
\* unique constraint on the inserted vehicles, or a full telemetry_events table
FailingWrite(st, rows, evs, fault) ==
    CASE st.to_insert # <<>> /\ (fault = "insert_vehicles" \/ ~UniqueOK(rows \o st.to_insert))
            -> "insert_vehicles"
      [] st.telemetry # <<>> /\ (fault = "insert_events" \/ Len(evs) + Len(st.telemetry) > MaxEvents)
            -> "insert_events"
      [] fault = "commit" -> "commit"
      [] OTHER -> "none"

\* what the open transaction holds when the write named failed raised
Pending(st, rows, evs, failed) ==
    CASE failed = "insert_vehicles" -> [vehicles |-> rows, events |-> evs]
      [] failed = "insert_events"   -> [vehicles |-> rows \o st.to_insert, events |-> evs]
      [] OTHER -> [vehicles |-> rows \o st.to_insert, events |-> evs \o st.telemetry]

\* Commit that loses the first telemetry event of the cycle
CommitWithoutFirstEvent(st, rows, evs) ==
    [vehicles |-> st.work \o st.to_insert, events |-> evs \o Tail(st.telemetry)]

\* Commit that makes the events visible without the vehicle rows
CommitEventsOnly(st, rows, evs) ==
    [vehicles |-> rows, events |-> evs \o st.telemetry]

\* Commit that replaces the events table by the events of the cycle
CommitOverwritesEvents(st, rows, evs) ==
    [vehicles |-> st.work \o st.to_insert, events |-> st.telemetry]

\* db.commit(): the inserts and the flushed in-place updates become the tables
Commit(st, rows, evs) ==
    [vehicles |-> st.work \o st.to_insert, events |-> evs \o st.telemetry]

\* Rollback that leaves the writes made so far in the tables
RollbackKeepsPending(pre, pending) == pending

\* db.rollback(): the tables are what they were before the transaction
Rollback(pre, pending) == pre

\* CaughtByCollect with a handler that lets a KeyError of the parser through
CaughtUnlessKeyError(exc) == exc # "KeyError"

\* CaughtByCollect without the outer handler
CaughtNothing(exc) == FALSE

\* except Exception around the whole of collect_telemetry: is exc caught
CaughtByCollect(exc) == TRUE

\* what a cycle that touches no table reports: exc is the exception that ended it
NoOpCycle(pre, outcome, exc) ==
    [store |-> pre, outcome |-> outcome, parsed |-> 0,
     raised |-> exc # "none" /\ ~CaughtByCollect(exc), snaps |-> <<>>]

\* the writes and the commit or rollback, given the staged rows st
WriteStaged(snaps, st, fault, rows, evs) ==
    LET failed == FailingWrite(st, rows, evs, fault)
    IN  IF failed = "none"
        THEN [store |-> Commit(st, rows, evs), outcome |-> "committed",
              parsed |-> Len(snaps), raised |-> FALSE, snaps |-> snaps]
        ELSE [store |-> Rollback([vehicles |-> rows, events |-> evs],
                                 Pending(st, rows, evs, failed)),
              outcome |-> "write_failed", parsed |-> Len(snaps),
              raised |-> FALSE, snaps |-> <<>>]

\* collect_telemetry from the return of get_vehicles up to the database part;
\* result is "payload", "none" or "raise", parsed what parse_vehicle_data gives
\* for the payload. The outcome "store" stands for: go on to the database part
BeforeStore(result, api_response, parsed, rows, evs) ==
    CASE result = "raise" ->
            NoOpCycle([vehicles |-> rows, events |-> evs], "client_raised", "ClientError")
      [] result = "none" ->
            NoOpCycle([vehicles |-> rows, events |-> evs], "upstream_failed", "none")
      [] result = "payload" /\ api_response.keys = {} ->
            NoOpCycle([vehicles |-> rows, events |-> evs], "empty_response", "none")
      [] result = "payload" /\ parsed.raised ->
            NoOpCycle([vehicles |-> rows, events |-> evs], "parse_error", "KeyError")
      [] result = "payload" /\ parsed.snaps = <<>> ->
            NoOpCycle([vehicles |-> rows, events |-> evs], "no_vehicles", "none")
      [] OTHER ->
            [store |-> [vehicles |-> rows, events |-> evs], outcome |-> "store",
             parsed |-> Len(parsed.snaps), raised |-> FALSE, snaps |-> parsed.snaps]

----------------------------------------------------------------------------
(* State of the collector, its scheduler and the cycles in flight *)

Slots == 1..NSlots

\* pc: where the coroutine stands; attempt: the loop variable of get_vehicles;
\* dropped: a tick was skipped while this instance was running
IdleSlot == [pc |-> "idle", attempt |-> 0, dropped |-> FALSE]

Busy == { s \in Slots : slots[s].pc # "idle" }

NoCycle == [outcome |-> "none", parsed |-> 0, added |-> 0, raised |-> FALSE, snaps |-> <<>>]

NoCall == [pc |-> "none", retries |-> 0, attempt |-> 0, requests |-> 0,
           outcomes |-> <<>>, waits |-> <<>>, result |-> "pending"]

\* the dummy payload of a request that did not end in a JSON document
NoPayload == [keys |-> {}, data |-> <<>>, included |-> <<>>]

\* no call of parse_vehicle_data is under way
ParseIdle == [pc |-> "idle", api_response |-> NoPayload,
              result |-> [raised |-> FALSE, snaps |-> <<>>]]

\* no headway request is under way
HwIdle == [pc |-> "idle"]
BunchIdle == [pc |-> "idle"]

\* no response has been given yet
ApiIdle == [op |-> "none"]

\* server processes that take requests to the delay API, one slot each
NCalls == 2

\* no updates and no inserts staged in the session
NoStaged == [updates |-> <<>>, inserts |-> <<>>]

\* a slot in which no request is being handled
IdleReq ==
    [pc |-> "idle", route_id |-> Null, hours |-> 0, window |-> <<>>,
     staged |-> NoStaged, first |-> <<>>]

\* no call has ended yet. kind: "direct" for a call of calculate_route_delays,
\* "api" for a request; window: the events the run read; fault: the storage
\* call that raised in it; updates, inserts: the writes it had staged; again:
\* the run before it was a successful one of the same route over the same
\* events; reads, runs: the calls of get_delay_history and of
\* calculate_route_delays the request made; delays: what it responded
NoCalc ==
    [kind |-> "none", route_id |-> Null, hours |-> 0, window |-> <<>>,
     fault |-> "none", raised |-> FALSE, updates |-> 0, inserts |-> 0,
     again |-> FALSE, reads |-> 0, runs |-> 0, delays |-> <<>>]

DelayIdle ==
    /\ reqs = [s \in 1..NCalls |-> IdleReq]
    /\ calc = NoCalc

\* the tables of src/, its collector and its analyzer before anything ran
NoTables == [routes |-> {}, vehicles |-> {}, trips |-> {}, stops |-> {}, alerts |-> {}]

LegacyIdle ==
    /\ db = NoTables
    /\ session = {}
    /\ tasks = <<>>
    /\ analyzer = [op |-> "none"]

\* nothing is being called from outside the collection cycle
QueryIdle ==
    /\ parse = ParseIdle
    /\ hw = HwIdle
    /\ bunch = BunchIdle
    /\ api = ApiIdle
    /\ DelayIdle

\* the collector as constructed, not started, and no client call
CollectorIdle ==
    /\ is_running = FALSE
    /\ scheduler = [state |-> "stopped", jobs |-> <<>>]
    /\ slots = [s \in Slots |-> IdleSlot]
    /\ last = NoCycle
    /\ call = NoCall

\* TelemetryCollector.__init__ and an empty database
Init ==
    /\ is_running = FALSE
    /\ scheduler = [state |-> "stopped", jobs |-> <<>>]
    /\ slots = [s \in Slots |-> IdleSlot]
    /\ vehicles = <<>>
    /\ events = <<>>
    /\ route_delays = <<>>
    /\ now = 0
    /\ last = NoCycle
    /\ call = NoCall
    /\ QueryIdle
    /\ LegacyIdle

\* AddJob without replace_existing
AddJobAgain(jobs, id) == Append(jobs, id)

\* scheduler.add_job(..., id=JobId, replace_existing=True)
AddJob(jobs, id) ==
    IF \E i \in 1..Len(jobs) : jobs[i] = id THEN jobs ELSE Append(jobs, id)

\* TelemetryCollector.start
Start ==
    /\ IF is_running
       THEN UNCHANGED <<is_running, scheduler>>
       ELSE /\ scheduler' = [state |-> "running", jobs |-> AddJob(scheduler.jobs, JobId)]
            /\ is_running' = TRUE
    /\ UNCHANGED <<slots, vehicles, events, route_delays, now, last, call>>
    /\ UNCHANGED qvars
    /\ UNCHANGED lvars

\* TelemetryCollector.stop: scheduler.shutdown() stops the timer; a cycle in
\* flight keeps its instance and runs to its end
Stop ==
    /\ IF ~is_running
       THEN UNCHANGED <<is_running, scheduler>>
       ELSE /\ scheduler' = [scheduler EXCEPT !.state = "stopped"]
            /\ is_running' = FALSE
    /\ UNCHANGED <<slots, vehicles, events, route_delays, now, last, call>>
    /\ UNCHANGED qvars
    /\ UNCHANGED lvars

TimerFires ==
    /\ scheduler.state = "running"
    /\ \E i \in 1..Len(scheduler.jobs) : scheduler.jobs[i] = JobId

\* CanSubmit that lets one instance too many in
CanSubmitOffByOne(running_instances) == running_instances <= MaxInstances

\* may the executor take another instance of the job
CanSubmit(running_instances) == running_instances < MaxInstances

\* a timer tick whose job is submitted: collect_telemetry runs up to its first
\* request (attempt 0 of get_vehicles)
TickStart ==
    /\ TimerFires
    /\ CanSubmit(Cardinality(Busy))
    /\ Busy # Slots
    /\ LET s == CHOOSE f \in Slots \ Busy : \A g \in Slots \ Busy : f <= g
       IN  slots' = [slots EXCEPT ![s] = [IdleSlot EXCEPT !.pc = "awaiting"]]
    /\ last' = NoCycle
    /\ UNCHANGED <<is_running, scheduler, vehicles, events, route_delays, now, call>>
    /\ UNCHANGED qvars
    /\ UNCHANGED lvars

\* a timer tick while max_instances cycles are running: the run is skipped
TickDropped ==
    /\ TimerFires
    /\ ~CanSubmit(Cardinality(Busy))
    /\ slots' = [s \in Slots |-> IF s \in Busy THEN [slots[s] EXCEPT !.dropped = TRUE]
                                 ELSE slots[s]]
    /\ UNCHANGED <<is_running, scheduler, vehicles, events, route_delays, now, last, call>>
    /\ UNCHANGED qvars
    /\ UNCHANGED lvars

\* the cycle in slot s ends as r says
EndCycle(s, r) ==
    /\ vehicles' = r.store.vehicles
    /\ events' = r.store.events
    /\ last' = [outcome |-> r.outcome, parsed |-> r.parsed,
                added |-> Len(r.store.events) - Len(events),
                raised |-> r.raised, snaps |-> r.snaps]
    /\ slots' = [slots EXCEPT ![s] = IdleSlot]

\* the rest of collect_telemetry once get_vehicles has returned in slot s: the
\* early returns, or the transaction, in which the write named by fault fails
FinishCycle(s, result, api_response) ==
    \E b \in {BeforeStore(result, api_response, parse_vehicle_data(api_response),
                          vehicles, events)} :
        IF b.outcome # "store"
        THEN EndCycle(s, b)
        ELSE \E st \in {Stage(b.snaps, vehicles, now)} :
             \E fault \in Faults :
             \E r \in {WriteStaged(b.snaps, st, fault, vehicles, events)} :
                EndCycle(s, r)

\* the pending request of the cycle in slot s ends in outcome
Respond(s, outcome, api_response) ==
    /\ slots[s].pc = "awaiting"
    /\ \E h \in {HandleResponse(slots[s].attempt, Retries, outcome)} :
           IF h.next = "sleep"
           THEN /\ slots' = [slots EXCEPT ![s].pc = "sleeping"]
                /\ UNCHANGED <<vehicles, events, last>>
           ELSE FinishCycle(s, h.next, api_response)
    /\ UNCHANGED <<is_running, scheduler, route_delays, now, call>>
    /\ UNCHANGED qvars
    /\ UNCHANGED lvars

\* Wake that sends the next request without counting the attempt
WakeWithoutCount(s) ==
    /\ slots[s].pc = "sleeping"
    /\ slots' = [slots EXCEPT ![s].pc = "awaiting"]
    /\ UNCHANGED <<vehicles, events, last>>
    /\ UNCHANGED <<is_running, scheduler, route_delays, now, call>>
    /\ UNCHANGED qvars
    /\ UNCHANGED lvars

\* the backoff sleep of the cycle in slot s is over
Wake(s) ==
    /\ slots[s].pc = "sleeping"
    /\ IF LoopContinues(slots[s].attempt, Retries)
       THEN /\ slots' = [slots EXCEPT ![s].pc = "awaiting", ![s].attempt = @ + 1]
            /\ UNCHANGED <<vehicles, events, last>>
       ELSE FinishCycle(s, "none", NoPayload)
    /\ UNCHANGED <<is_running, scheduler, route_delays, now, call>>
    /\ UNCHANGED qvars
    /\ UNCHANGED lvars

\* the clock
Advance ==
    /\ now < MaxTime
    /\ now' = now + 1
    /\ UNCHANGED <<is_running, scheduler, slots, vehicles, events, route_delays, last,
                   call>>
    /\ UNCHANGED qvars
    /\ UNCHANGED lvars

Next ==
    \/ Start
    \/ Stop
    \/ TickStart
    \/ TickDropped
    \/ \E s \in Slots :
         \/ \E outcome \in Outcomes \ {"ok"} : Respond(s, outcome, NoPayload)
         \/ \E api_response \in Responses : Respond(s, "ok", api_response)
    \/ \E s \in Slots : Wake(s)
    \/ Advance

Spec == Init /\ [][Next]_vars

\* the responses with at most one vehicle
LiveResponses == { r \in Responses : Len(r.data) <= 1 }

\* the pending request of the cycle in slot s ends: the client has a timeout,
\* so every request ends, with a response or with an exception
RequestEnds(s) ==
    \/ \E outcome \in Outcomes \ {"ok"} : Respond(s, outcome, NoPayload)
    \/ \E api_response \in LiveResponses : Respond(s, "ok", api_response)

NextLive ==
    \/ Start
    \/ Stop
    \/ TickStart
    \/ TickDropped
    \/ \E s \in Slots : RequestEnds(s)
    \/ \E s \in Slots : Wake(s)

\* what the event loop and the interval trigger guarantee: a pending request
\* ends, a sleep ends, and a due tick whose job can be submitted is run
Fairness ==
    /\ \A s \in Slots : WF_vars(RequestEnds(s)) /\ WF_vars(Wake(s))
    /\ WF_vars(TickStart)

LiveSpec == Init /\ [][NextLive]_vars /\ Fairness

----------------------------------------------------------------------------
(* A direct call of get_vehicles(retries=r), with its history *)

StartCall(r) ==
    IF r > 0
    THEN [pc |-> "awaiting", retries |-> r, attempt |-> 0, requests |-> 1,
          outcomes |-> <<>>, waits |-> <<>>, result |-> "pending"]
    ELSE [pc |-> "returned", retries |-> r, attempt |-> 0, requests |-> 0,
          outcomes |-> <<>>, waits |-> <<>>, result |-> "none"]

InitCall ==
    /\ is_running = FALSE
    /\ scheduler = [state |-> "stopped", jobs |-> <<>>]
    /\ slots = [s \in Slots |-> IdleSlot]
    /\ vehicles = <<>>
    /\ events = <<>>
    /\ route_delays = <<>>
    /\ now = 0
    /\ last = NoCycle
    /\ call \in { StartCall(r) : r \in 0..MaxRetries }
    /\ QueryIdle
    /\ LegacyIdle

\* the pending request of the call ends in outcome
CallRespond(outcome) ==
    /\ call.pc = "awaiting"
    /\ \E h \in {HandleResponse(call.attempt, call.retries, outcome)} :
           call' = IF h.next = "sleep"
                   THEN [call EXCEPT !.pc = "sleeping",
                                     !.outcomes = Append(@, outcome),
                                     !.waits = Append(@, h.wait)]
                   ELSE [call EXCEPT !.pc = "returned",
                                     !.outcomes = Append(@, outcome),
                                     !.result = h.next]
    /\ UNCHANGED <<is_running, scheduler, slots, vehicles, events, route_delays, now,
                   last>>
    /\ UNCHANGED qvars
    /\ UNCHANGED lvars

\* the backoff sleep of the call is over
CallWake ==
    /\ call.pc = "sleeping"
    /\ call' = IF LoopContinues(call.attempt, call.retries)
               THEN [call EXCEPT !.pc = "awaiting", !.attempt = @ + 1,
                                 !.requests = @ + 1]
               ELSE [call EXCEPT !.pc = "returned", !.result = "none"]
    /\ UNCHANGED <<is_running, scheduler, slots, vehicles, events, route_delays, now,
                   last>>
    /\ UNCHANGED qvars
    /\ UNCHANGED lvars

NextCall ==
    \/ \E outcome \in Outcomes : CallRespond(outcome)
    \/ CallWake

ClientSpec == InitCall /\ [][NextCall]_vars

----------------------------------------------------------------------------
(* Properties of the collector and the store, checked under Spec *)

\* slot s ends its cycle in this step
CycleEnds(s) == slots[s].pc # "idle" /\ slots'[s].pc = "idle"

\* slot s starts a cycle in this step
CycleStarts(s) == slots[s].pc = "idle" /\ slots'[s].pc # "idle"

StoreUnchanged ==
    vehicles' = vehicles /\ events' = events /\ route_delays' = route_delays

\* C1: at most one collection cycle is in flight at any instant; a cycle
\* starts only on a timer tick that finds no cycle in flight, and a tick that
\* finds one in flight (awaiting a response or sleeping in a backoff) changes
\* no cycle: it starts none, then or later
C1_SingleFlight ==
    /\ [](Cardinality(Busy) <= 1)
    /\ [][ /\ (\E s \in Slots : CycleStarts(s)) => (TimerFires /\ Busy = {})
           /\ (\E s \in Slots : ~slots[s].dropped /\ slots'[s].dropped) =>
                /\ TimerFires /\ Busy # {}
                /\ \A s \in Slots : /\ slots'[s].pc = slots[s].pc
                                     /\ slots'[s].attempt = slots[s].attempt ]_vars

\* a tick was dropped while the cycle was sleeping in a retry backoff
C1_Witness ==
    /\ is_running
    /\ \E s \in Slots : slots[s].pc = "sleeping" /\ slots[s].attempt = 1 /\ slots[s].dropped

\* the vehicles row of vehicle vid after a cycle that parsed snaps at time t
LatestRow(snaps, vid, t) ==
    LET idx == { i \in 1..Len(snaps) : snaps[i].vehicle_id = vid }
        m   == CHOOSE i \in idx : \A k \in idx : k <= i
    IN  [vehicle_id |-> vid, route_id |-> snaps[m].route_id,
         route_name |-> snaps[m].route_name, latitude |-> snaps[m].latitude,
         longitude |-> snaps[m].longitude, bearing |-> snaps[m].bearing,
         speed |-> snaps[m].speed, current_status |-> snaps[m].current_status,
         last_updated |-> t]

\* C2: vehicles holds at most one row per vehicle id in every reachable state,
\* and after a committed cycle every vehicle of the cycle has exactly one row,
\* which carries the values of its latest snapshot and the cycle's time
C2_OneRowPerVehicle ==
    /\ \A i, j \in 1..Len(vehicles) :
          vehicles[i].vehicle_id = vehicles[j].vehicle_id => i = j
    /\ last.outcome = "committed" =>
          \A k \in 1..Len(last.snaps) :
             LET vid  == last.snaps[k].vehicle_id
                 rows == { i \in 1..Len(vehicles) : vehicles[i].vehicle_id = vid }
             IN  /\ Cardinality(rows) = 1
                 /\ \A i \in rows :
                      vehicles[i] = LatestRow(last.snaps, vid, events[Len(events)].timestamp)

\* the same snapshot of one vehicle went through two committed cycles at
\* different times, and the vehicle has one row
C2_Witness ==
    /\ last.outcome = "committed"
    /\ Len(events) = 2
    /\ events[1].vehicle_id = events[2].vehicle_id
    /\ events[1].speed = events[2].speed
    /\ events[1].timestamp < events[2].timestamp
    /\ Len(vehicles) = 1
    /\ vehicles[1].last_updated = events[2].timestamp

\* C3 as stated: every cycle adds as many telemetry rows as it parsed
\* snapshots, and none when the upstream fetch fails
C3_Original ==
    /\ last.outcome # "none" => last.added = last.parsed
    /\ last.outcome = "upstream_failed" => last.added = 0

\* C3 amended: a cycle that commits adds as many telemetry rows as it parsed
\* snapshots; every other cycle (upstream failure, empty or malformed
\* response, failed write) adds none
C3_EventsPerCycle ==
    /\ [](last.outcome = "committed" =>
            /\ last.added = last.parsed
            /\ last.parsed = Len(last.snaps)
            /\ last.parsed > 0
            /\ Len(events) >= last.added)
    /\ [](last.outcome \notin {"committed", "none"} => last.added = 0)
    /\ [][\A s \in Slots : CycleEnds(s) =>
            /\ Len(events') - Len(events) = last'.added
            /\ SubSeq(events', 1, Len(events)) = events]_vars

\* a committed cycle of two snapshots, after an earlier committed cycle
C3_Witness ==
    /\ last.outcome = "committed"
    /\ last.parsed = 2
    /\ Len(events) = 3

\* C4: a cycle one of whose writes fails leaves all three tables as they were
\* before the cycle, and no exception reaches its caller
C4_AllOrNothing ==
    [][\A s \in Slots :
         (CycleEnds(s) /\ last'.outcome = "write_failed") =>
            (StoreUnchanged /\ ~last'.raised)]_vars

\* a write of a cycle failed on a store that already holds rows
C4_Witness ==
    /\ last.outcome = "write_failed"
    /\ last.parsed = 2
    /\ vehicles # <<>>
    /\ events # <<>>

NoOpOutcomes == {"upstream_failed", "empty_response", "no_vehicles", "parse_error"}

\* C5: a cycle whose fetch fails, whose response holds no vehicle, or whose
\* payload is malformed leaves every table unchanged and returns normally
C5_NoOpCycle ==
    [][\A s \in Slots :
         (CycleEnds(s) /\ last'.outcome \in NoOpOutcomes) =>
            (StoreUnchanged /\ ~last'.raised /\ last'.added = 0)]_vars

\* a malformed payload ended a cycle on a store that holds rows
C5_Witness ==
    /\ last.outcome = "parse_error"
    /\ events # <<>>

FailedOutcomes == {"upstream_failed", "parse_error", "write_failed", "client_raised"}

\* C6: a failed cycle leaves the collector and its scheduler as they were,
\* raises nothing into the scheduler and leaves the store as it was, and
\* while the scheduler runs the next tick can start a new cycle
C6_FailureDoesNotStopScheduler ==
    /\ [][\A s \in Slots :
            (CycleEnds(s) /\ last'.outcome \in FailedOutcomes) =>
               /\ is_running' = is_running
               /\ scheduler' = scheduler
               /\ ~last'.raised
               /\ StoreUnchanged
               /\ slots'[s] = IdleSlot]_vars
    /\ []((last.outcome \in FailedOutcomes /\ TimerFires) => ENABLED TickStart)

\* the collector is running after a cycle failed in storage
C6_Witness ==
    /\ last.outcome = "write_failed"
    /\ is_running
    /\ TimerFires
    /\ Busy = {}

----------------------------------------------------------------------------
(* Properties of get_vehicles, checked under ClientSpec *)

AllAre(seq, x) == \A i \in 1..Len(seq) : seq[i] = x

\* C7: with retries = 3, 429 responses only: the k-th wait is 5 * 2^(k-1),
\* three of them make exactly 3 requests and waits of 5, 10 and 20, and the
\* call then returns None
C7_ThreeRateLimits ==
    (call.retries = 3 /\ call.outcomes # <<>> /\ AllAre(call.outcomes, "429")) =>
        /\ call.requests = Len(call.outcomes) + (IF call.pc = "awaiting" THEN 1 ELSE 0)
        /\ call.requests <= 3
        /\ call.waits = SubSeq(<<5, 10, 20>>, 1, Len(call.outcomes))
        /\ call.pc = "returned" => (call.result = "none" /\ call.requests = 3)

C7_Witness ==
    /\ call.retries = 3
    /\ call.outcomes = <<"429", "429", "429">>
    /\ call.waits = <<5, 10, 20>>
    /\ call.pc = "returned"
    /\ call.result = "none"

\* progress of a call through its loop
CallMeasure(c) ==
    IF c.pc = "returned" THEN 2 * (MaxRetries + 1) + 2
    ELSE 2 * c.attempt + (IF c.pc = "sleeping" THEN 1 ELSE 0)

\* C8: get_vehicles issues at most retries requests, every step of the call
\* brings it nearer to its return, and it returns the payload or None and
\* never raises
C8_BoundedAttempts ==
    /\ [](/\ call.requests <= call.retries
          /\ call.attempt < call.retries \/ call.retries = 0
          /\ Len(call.outcomes) <= call.requests
          /\ call.result # "raise"
          /\ call.pc = "returned" => call.result \in {"payload", "none"}
          /\ call.pc \in {"awaiting", "sleeping"} => ENABLED NextCall)
    /\ [][CallMeasure(call') > CallMeasure(call)]_vars

\* a call used up all of its 3 requests on failures of different kinds
C8_Witness ==
    /\ call.pc = "returned"
    /\ call.retries = Retries
    /\ call.requests = Retries
    /\ call.outcomes = <<"5xx", "timeout", "error">>
    /\ call.result = "none"

\* C9: a 4xx response other than 429 is the last thing that happens in the
\* call: it returns None, with no wait and no request after it
C9_ClientErrorReturnsAtOnce ==
    \A i \in 1..Len(call.outcomes) :
        call.outcomes[i] = "4xx" =>
            /\ i = Len(call.outcomes)
            /\ call.pc = "returned"
            /\ call.result = "none"
            /\ Len(call.waits) = i - 1
            /\ call.requests = i

\* a 4xx on the second of three attempts
C9_Witness ==
    /\ call.retries = 3
    /\ call.outcomes = <<"5xx", "4xx">>
    /\ call.pc = "returned"

TransientOutcomes == {"timeout", "error", "bad_json"}

\* C10 as stated: after a timeout or another transient error at attempt a,
\* with a retry left, the wait is 2^a
C10_Original ==
    \A i \in 1..Len(call.waits) :
        call.outcomes[i] \in TransientOutcomes => call.waits[i] = Pow2(i - 1)

\* C10 amended: with a retry left, the wait after a timeout at attempt a is
\* 2 * 2^a and the wait after another non-HTTP-status error is 2^a; on the
\* last attempt neither waits
C10_TransientBackoff ==
    /\ \A i \in 1..Len(call.waits) :
          /\ call.outcomes[i] = "timeout" => call.waits[i] = 2 * Pow2(i - 1)
          /\ call.outcomes[i] \in {"error", "bad_json"} => call.waits[i] = Pow2(i - 1)
    /\ \A i \in 1..Len(call.outcomes) :
          (call.outcomes[i] \in TransientOutcomes /\ i < call.retries) =>
              Len(call.waits) >= i
    /\ (call.outcomes # <<>> /\ call.outcomes[Len(call.outcomes)] \in TransientOutcomes
          /\ Len(call.outcomes) = call.retries) =>
              (Len(call.waits) = call.retries - 1 /\ call.pc = "returned")

\* an error at attempt 0 and a timeout at attempt 1, both waited for
C10_Witness ==
    /\ call.outcomes = <<"error", "timeout">>
    /\ call.waits = <<1, 4>>
    /\ call.pc = "sleeping"

\* C11: a 5xx at attempt a (0-based) with a retry left is followed by a wait
\* of 2 * 2^a seconds and then by the next attempt; a 5xx on the last attempt
\* is followed by no wait: the call returns None
C11_ServerErrorBackoff ==
    \A i \in 1..Len(call.outcomes) :
        call.outcomes[i] = "5xx" =>
            IF i < call.retries
            THEN /\ Len(call.waits) >= i
                 /\ call.waits[i] = 2 * Pow2(i - 1)
                 /\ \/ call.pc = "sleeping" /\ Len(call.outcomes) = i /\ call.requests = i
                    \/ call.requests > i
            ELSE /\ i = Len(call.outcomes)
                 /\ Len(call.waits) = i - 1
                 /\ call.pc = "returned"
                 /\ call.result = "none"

\* three 5xx responses in a row: waits of 2 and 4 seconds, then None
C11_Witness ==
    /\ call.retries = 3
    /\ call.outcomes = <<"5xx", "5xx", "5xx">>
    /\ call.waits = <<2, 4>>
    /\ call.pc = "returned"
    /\ call.result = "none"

----------------------------------------------------------------------------
(* MBTAClient.parse_vehicle_data called on its own, over the shapes the    *)
(* attributes of an included route resource can take                       *)

\* included resources in one response
MaxIncluded == 1

\* a name attribute: missing key, JSON null, empty string or a name
NameValues(name) == {Absent, Null, "", name}

IncludedItems ==
    [type : {"route", "trip"}, id : {"Red", "Orange"},
     long_name : NameValues("Red Line"), short_name : NameValues("RL")]

\* a vehicle resource with and without a route relationship
ParseVehicles ==
    { [id |-> "v1", route |-> r, attributes |-> a] :
        r \in {"Red", Absent}, a \in {b \in ItemAttrs : b.speed = 10} }

ParseResponses ==
    { [keys |-> {"data"} \cup (IF inc = <<>> THEN {} ELSE {"included"}),
       data |-> <<v>>, included |-> inc] :
         v \in ParseVehicles, inc \in SeqsUpTo(IncludedItems, MaxIncluded) }

InitParse ==
    /\ CollectorIdle
    /\ vehicles = <<>>
    /\ events = <<>>
    /\ route_delays = <<>>
    /\ now = 0
    /\ parse \in { [pc |-> "input", api_response |-> r, result |-> ParseIdle.result] :
                      r \in ParseResponses }
    /\ hw = HwIdle
    /\ bunch = BunchIdle
    /\ api = ApiIdle
    /\ DelayIdle
    /\ LegacyIdle

\* parse_vehicle_data(api_response)
ParseCall ==
    /\ parse.pc = "input"
    /\ parse' = [parse EXCEPT !.pc = "parsed",
                              !.result = parse_vehicle_data(parse.api_response)]
    /\ UNCHANGED <<vehicles, events, route_delays, now, hw, bunch, api, reqs, calc>>
    /\ UNCHANGED cvars
    /\ UNCHANGED lvars

NextParse == ParseCall

ParseSpec == InitParse /\ [][NextParse]_vars

----------------------------------------------------------------------------
(* Tables as the collector leaves them: a log of collected snapshots,      *)
(* replayed through the transaction of a cycle. Times are in seconds       *)

\* the route ids in use, in the order the database sorts them
RouteIds == <<"77", "Blue", "Red">>

RouteRank(rid) == CHOOSE i \in 1..Len(RouteIds) : RouteIds[i] = rid

\* a float column holding NULL
NoneNum == 999

\* the record parse_vehicle_data builds for vehicle vid on route rid at latitude lat
Snapshot(vid, rid, lat) ==
    [vehicle_id |-> vid, route_id |-> rid, route_name |-> rid,
     latitude |-> lat, longitude |-> 71, bearing |-> 90, speed |-> 10,
     current_status |-> "IN_TRANSIT_TO", updated_at |-> "u1"]

\* logs of at most n entries [snap, t] in collection order: the instants do
\* not decrease and a vehicle is collected once per instant
Logs(snaps, times, n) ==
    { log \in SeqsUpTo([snap : snaps, t : times], n) :
        \A i, j \in 1..Len(log) :
            i < j => /\ log[i].t <= log[j].t
                     /\ (log[i].t = log[j].t =>
                            log[i].snap.vehicle_id # log[j].snap.vehicle_id) }

\* the tables after the cycles of log[i..] have committed, one cycle per instant
RECURSIVE Replay(_, _, _)
Replay(log, i, store) ==
    IF i > Len(log) THEN store
    ELSE LET t     == log[i].t
             same  == { k \in i..Len(log) : log[k].t = t }
             snaps == [ k \in 1..Cardinality(same) |-> log[i + k - 1].snap ]
             st    == Stage(snaps, store.vehicles, t)
         IN  Replay(log, i + Cardinality(same),
                    Commit(st, store.vehicles, store.events))

Tables(log) == Replay(log, 1, [vehicles |-> <<>>, events |-> <<>>])

----------------------------------------------------------------------------
(* Minutes as exact fractions *)

RECURSIVE GCD(_, _)
GCD(a, b) == IF b = 0 THEN a ELSE GCD(b, a % b)

Abs(n) == IF n < 0 THEN 0 - n ELSE n

\* n / d for d > 0, in lowest terms
Quot(n, d) ==
    LET g == GCD(Abs(n), d)
    IN  [num |-> n \div g, den |-> d \div g]

RatAdd(a, b) == Quot(a.num * b.den + b.num * a.den, a.den * b.den)

RatLeq(a, b) == a.num * b.den <= b.num * a.den

RECURSIVE RatSum(_)
RatSum(seq) ==
    IF seq = <<>> THEN Quot(0, 1)
    ELSE IF Len(seq) = 1 THEN RatAdd(seq[1], Quot(0, 1))
    ELSE LET mid == Len(seq) \div 2
         IN  RatAdd(RatSum(SubSeq(seq, 1, mid)), RatSum(SubSeq(seq, mid + 1, Len(seq))))

\* sum(xs) / len(xs)
RatMean(seq) == LET sum == RatSum(seq) IN Quot(sum.num, sum.den * Len(seq))

RatMin(seq) == seq[CHOOSE i \in 1..Len(seq) : \A j \in 1..Len(seq) : RatLeq(seq[i], seq[j])]

RatMax(seq) == seq[CHOOSE i \in 1..Len(seq) : \A j \in 1..Len(seq) : RatLeq(seq[j], seq[i])]

\* total_seconds() / 60
Minutes(seconds) == Quot(seconds, 60)

----------------------------------------------------------------------------
(* GET /analytics/headway *)

\* rows of telemetry_events when the request arrives
MaxHwEvents == 4

\* the window of the analysis, seconds, and the cap of the returned list
HeadwayWindow == 3600
HeadwayListLimit == 100

HwSnaps == { Snapshot("v1", "Red", 42), Snapshot("v2", "Red", 42),
             Snapshot("v3", "Blue", 42) }

\* the instants of collection and of the request
HwTimes == {0, 180, 210, 1200}
HwNows == {1200, 3700}

\* the optional query parameter route_id
HwParams == {Null, "Red", "Blue"}

NoTime == 0 - 1

\* ORDER BY route_id, timestamp over the rows at the positions idx: every
\* sequence sorted on the key; rows with equal keys come in any order, and
\* with no equal keys the one order puts each row at the rank of its key
KeyLeq(a, b) ==
    \/ RouteRank(a.route_id) < RouteRank(b.route_id)
    \/ a.route_id = b.route_id /\ a.timestamp <= b.timestamp

RECURSIVE OrderByRouteTime(_, _)
OrderByRouteTime(rows, idx) ==
    IF idx = {} THEN { <<>> }
    ELSE IF \A i, j \in idx : (KeyLeq(rows[i], rows[j]) /\ KeyLeq(rows[j], rows[i])) => i = j
    THEN { [ k \in 1..Cardinality(idx) |-> rows[CHOOSE i \in idx : rank[i] = k] ] :
             rank \in { [ i \in idx |->
                          Cardinality({ j \in idx : KeyLeq(rows[j], rows[i]) }) ] } }
    ELSE UNION { { <<rows[i]>> \o rest : rest \in OrderByRouteTime(rows, idx \ {i}) } :
                   i \in { k \in idx : \A j \in idx : KeyLeq(rows[k], rows[j]) } }

\* the rows the query selects: the route filter if one is given, and the window
HwSelected(rows, route_id, t) ==
    { i \in 1..Len(rows) :
        /\ Truthy(route_id) => rows[i].route_id = route_id
        /\ rows[i].timestamp >= t - HeadwayWindow }

\* last_timestamp after a headway was emitted, taken from the start of the gap
KeepLast(last_timestamp, timestamp) == last_timestamp

\* last_timestamp = event.timestamp
NextLast(last_timestamp, timestamp) == timestamp

\* the variables of the loop before the first event
HwStart ==
    [current_route |-> Null, current_vehicle |-> Null, last_timestamp |-> NoTime,
     keys |-> {}, headways |-> [r \in {RouteIds[i] : i \in 1..Len(RouteIds)} |-> <<>>]]

\* one pass of the loop body; the route ids of the rows are never None, so
\* current_route is a key of headways_by_route when a headway is appended
HwStep(st, event) ==
    LET st1 == IF event.route_id # st.current_route
               THEN [st EXCEPT !.current_route = event.route_id,
                               !.current_vehicle = Null,
                               !.last_timestamp = NoTime,
                               !.keys = @ \cup {event.route_id}]
               ELSE st
    IN  IF event.vehicle_id # st1.current_vehicle
        THEN [st1 EXCEPT !.current_vehicle = event.vehicle_id,
                         !.last_timestamp = event.timestamp]
        ELSE IF st1.last_timestamp # NoTime
        THEN [st1 EXCEPT !.headways[st1.current_route] =
                             Append(@, Minutes(event.timestamp - st1.last_timestamp)),
                         !.last_timestamp = NextLast(@, event.timestamp)]
        ELSE st1

\* the loop over rows[i..], one half of the rows after the other
RECURSIVE HwWalk(_, _, _)
HwWalk(rows, i, st) ==
    IF i > Len(rows) THEN st
    ELSE IF i = Len(rows) THEN HwStep(st, rows[i])
    ELSE LET mid == (i + Len(rows)) \div 2
         IN  CHOOSE out \in { HwWalk(rows, mid + 1, half) :
                                half \in { HwWalk(SubSeq(rows, 1, mid), i, st) } } : TRUE

NoStats == [count |-> 0]

\* HwStats computed over the returned list
HwStatsOfReturned(headways) ==
    LET returned == SubSeq(headways, 1,
                           IF Len(headways) < HeadwayListLimit THEN Len(headways)
                           ELSE HeadwayListLimit)
    IN  [count |-> Len(returned), avg_minutes |-> RatMean(returned),
         min_minutes |-> RatMin(returned), max_minutes |-> RatMax(returned),
         headways |-> returned]

\* the statistics of one route
HwStats(headways) ==
    [count |-> Len(headways), avg_minutes |-> RatMean(headways),
     min_minutes |-> RatMin(headways), max_minutes |-> RatMax(headways),
     headways |-> SubSeq(headways, 1,
                         IF Len(headways) < HeadwayListLimit THEN Len(headways)
                         ELSE HeadwayListLimit)]

\* the handler on the rows in the order the query returned them
HeadwayAnalysis(route_id, rows) ==
    LET st == HwWalk(rows, 1, HwStart)
    IN  [pc |-> "done", route_id |-> route_id, rows |-> rows,
         headways_by_route |-> st.headways,
         routes |-> { r \in st.keys : st.headways[r] # <<>> },
         analysis |-> [ r \in DOMAIN st.headways |->
                          IF r \in st.keys /\ st.headways[r] # <<>>
                          THEN HwStats(st.headways[r]) ELSE NoStats ]]

InitHeadway ==
    /\ CollectorIdle
    /\ \E log \in Logs(HwSnaps, HwTimes, MaxHwEvents) :
        \E store \in {Tables(log)} :
           /\ vehicles = store.vehicles
           /\ events = store.events
    /\ route_delays = <<>>
    /\ now \in HwNows
    /\ parse = ParseIdle
    /\ hw = HwIdle
    /\ bunch = BunchIdle
    /\ api = ApiIdle
    /\ DelayIdle
    /\ LegacyIdle

\* get_headway_analysis(route_id)
GetHeadwayAnalysis(route_id) ==
    /\ hw.pc = "idle"
    /\ \E rows \in OrderByRouteTime(events, HwSelected(events, route_id, now)) :
           hw' = HeadwayAnalysis(route_id, rows)
    /\ UNCHANGED <<vehicles, events, route_delays, now, parse, bunch, api, reqs, calc>>
    /\ UNCHANGED cvars
    /\ UNCHANGED lvars

NextHeadway == \E route_id \in HwParams : GetHeadwayAnalysis(route_id)

HeadwaySpec == InitHeadway /\ [][NextHeadway]_vars

----------------------------------------------------------------------------
(* GET /analytics/headway on an hour in which one vehicle was collected    *)
(* more often than the returned list is long                               *)

\* events of the vehicle at most
MaxHwRun == 103

\* the cycles are IntervalSeconds apart, but for one that came late
HwLate == {20, 30}
HwLatePositions == {2, 50, 101, 102}

\* the log of n cycles that collected v1, of which cycle j was late by late;
\* the cycles leave one row of v1 and an event each
RunLog(n, j, late) ==
    [ i \in 1..n |-> [snap |-> Snapshot("v1", "Red", 42),
                      t |-> IntervalSeconds * i + (IF i >= j THEN late ELSE 0)] ]

InitHeadwayRun ==
    /\ CollectorIdle
    /\ \E n \in (MaxHwRun - 3)..MaxHwRun, j \in HwLatePositions, late \in HwLate :
        \E log \in {RunLog(n, j, late)} :
           /\ vehicles = <<VehicleRow(log[n].snap, log[n].t)>>
           /\ events = [ i \in 1..n |-> TelemetryRow(log[i].snap, log[i].t) ]
    /\ route_delays = <<>>
    /\ now \in HwNows
    /\ QueryIdle
    /\ LegacyIdle

HeadwayRunSpec == InitHeadwayRun /\ [][NextHeadway]_vars

----------------------------------------------------------------------------
(* DelayCalculator. Times are in seconds                                   *)

\* rows the telemetry_events table holds at most
MaxDelayEvents == 4

\* the arguments route_id and hours_back
DelayRoutes == {"Red", "77"}
DelayHours == {1, 48}
CalcHours == {25, 48}

\* the storage call of a run that raises: a query or the commit
DelayFaults == {"none", "query", "commit"}

\* ScheduledHeadway with the default for every route
ScheduledHeadwayDefaultOnly(route_id) == 10

\* SCHEDULED_HEADWAYS.get(route_id, 10)
ScheduledHeadway(route_id) ==
    CASE route_id \in {"Red", "Orange"} -> 6
      [] route_id = "Green" -> 5
      [] route_id = "Blue" -> 7
      [] route_id = "1" -> 10
      [] route_id = "39" -> 8
      [] OTHER -> 10

\* event.timestamp.hour
Hour(t) == (t \div 3600) % 24

\* the events of the route since cutoff, ORDER BY timestamp: the table holds
\* the rows in the order of collection, in which timestamps never decrease
DelayEvents(evs, route_id, cutoff) ==
    SelectSeq(evs, LAMBDA e : e.route_id = route_id /\ e.timestamp >= cutoff)

\* the keys of a dict in the order of their first insertion
RECURSIVE Distinct(_)
Distinct(seq) ==
    IF seq = <<>> THEN <<>>
    ELSE LET front == Distinct(SubSeq(seq, 1, Len(seq) - 1))
         IN  IF \E i \in 1..Len(front) : front[i] = seq[Len(seq)]
             THEN front ELSE Append(front, seq[Len(seq)])

RECURSIVE Concat(_)
Concat(seqs) == IF seqs = <<>> THEN <<>> ELSE Head(seqs) \o Concat(Tail(seqs))

\* the delays of one vehicle in one hour: none with fewer than 2 events
VehicleDelays(vehicle_events, scheduled_headway) ==
    [ i \in 1..(Len(vehicle_events) - 1) |->
        RatAdd(Minutes(vehicle_events[i + 1].timestamp - vehicle_events[i].timestamp),
               Quot(0 - scheduled_headway, 1)) ]

\* delays of the hour: vehicles_by_hour[hour] walked vehicle by vehicle
HourDelays(rows, hour, scheduled_headway) ==
    LET in_hour == SelectSeq(rows, LAMBDA e : Hour(e.timestamp) = hour)
        ids     == Distinct([ i \in 1..Len(in_hour) |-> in_hour[i].vehicle_id ])
    IN  Concat([ k \in 1..Len(ids) |->
                   VehicleDelays(SelectSeq(in_hour, LAMBDA e : e.vehicle_id = ids[k]),
                                 scheduled_headway) ])

\* ExistingDelay that looks for the hour only
ExistingOfAnyRoute(rds, route_id, hour) ==
    LET idx == { i \in 1..Len(rds) : rds[i].hour_of_day = hour }
    IN  IF idx = {} THEN 0 ELSE CHOOSE i \in idx : \A k \in idx : i <= k

\* ExistingDelay that finds no row
ExistingNeverFound(rds, route_id, hour) == 0

\* query(RouteDelay).filter(route_id, hour_of_day).first(): the position of
\* the row, 0 for None
ExistingDelay(rds, route_id, hour) ==
    LET idx == { i \in 1..Len(rds) :
                   rds[i].route_id = route_id /\ rds[i].hour_of_day = hour }
    IN  IF idx = {} THEN 0 ELSE CHOOSE i \in idx : \A k \in idx : i <= k

\* the body of the loop over the hours: an update of the existing row or a
\* new row is left in the session (autoflush is off)
StageHour(st, rows, rds, route_id, t, hour) ==
    LET delays == HourDelays(rows, hour, ScheduledHeadway(route_id))
        idx    == ExistingDelay(rds, route_id, hour)
    IN  IF delays = <<>> THEN st
        ELSE IF idx # 0
        THEN [st EXCEPT !.updates =
                 Append(@, [idx |-> idx, avg_delay_minutes |-> RatMean(delays),
                            sample_count |-> Len(delays), calculated_at |-> t])]
        ELSE [st EXCEPT !.inserts =
                 Append(@, [route_id |-> route_id, route_name |-> rows[1].route_id,
                            hour_of_day |-> hour,
                            avg_delay_minutes |-> RatMean(delays),
                            sample_count |-> Len(delays), calculated_at |-> NoTime])]

RECURSIVE StageHours(_, _, _, _, _, _)
StageHours(hours, st, rows, rds, route_id, t) ==
    IF hours = <<>> THEN st
    ELSE StageHours(Tail(hours), StageHour(st, rows, rds, route_id, t, Head(hours)),
                    rows, rds, route_id, t)

\* what a run over rows leaves in the session; nothing if there are no events
Staged(rows, rds, route_id, t) ==
    StageHours(Distinct([ i \in 1..Len(rows) |-> Hour(rows[i].timestamp) ]),
               NoStaged, rows, rds, route_id, t)

RECURSIVE ApplyUpdates(_, _)
ApplyUpdates(rds, updates) ==
    IF updates = <<>> THEN rds
    ELSE LET u == Head(updates)
         IN  ApplyUpdates([rds EXCEPT ![u.idx].avg_delay_minutes = u.avg_delay_minutes,
                                      ![u.idx].sample_count = u.sample_count,
                                      ![u.idx].calculated_at = u.calculated_at],
                          Tail(updates))

\* db.commit(): the updates, then the new rows, calculated_at by its default
CommitDelays(rds, staged, t) ==
    ApplyUpdates(rds, staged.updates) \o
        [ i \in 1..Len(staged.inserts) |-> [staged.inserts[i] EXCEPT !.calculated_at = t] ]

\* RollbackDelays that leaves the flushed updates in the table
RollbackDelaysKeepsPending(pre, pending) == pending

\* db.rollback() in the except clause
RollbackDelays(pre, pending) == pre

\* except Exception: ... raise
CalcRaises(fault) == fault # "none"

\* the rows ORDER BY hour_of_day, rows of the same hour by id
RECURSIVE OrderByHour(_, _)
OrderByHour(rds, idx) ==
    IF idx = {} THEN <<>>
    ELSE LET i == CHOOSE k \in idx :
                    \A j \in idx : \/ rds[k].hour_of_day < rds[j].hour_of_day
                                    \/ (rds[k].hour_of_day = rds[j].hour_of_day /\ k <= j)
         IN  <<[hour_of_day |-> rds[i].hour_of_day,
                avg_delay_minutes |-> rds[i].avg_delay_minutes,
                sample_count |-> rds[i].sample_count,
                calculated_at |-> rds[i].calculated_at]>>
             \o OrderByHour(rds, idx \ {i})

\* get_delay_history(route_id, hours_back) at time t
DelayHistory(rds, route_id, hours, t) ==
    OrderByHour(rds, { i \in 1..Len(rds) :
                         /\ rds[i].route_id = route_id
                         /\ rds[i].calculated_at >= t - hours * 3600 })

\* the end of a run over the events window with staged in the session:
\* without events it returned at once; otherwise it commits, or the storage
\* call named by fault raises, the session is rolled back and the exception
\* leaves calculate_route_delays
EndRun(rds, window, staged, t, fault) ==
    IF CalcRaises(fault) /\ (fault = "query" \/ window # <<>>)
    THEN [route_delays |-> RollbackDelays(rds, IF fault = "commit"
                                               THEN CommitDelays(rds, staged, t)
                                               ELSE rds),
          raised |-> TRUE]
    ELSE [route_delays |-> IF window = <<>> THEN rds ELSE CommitDelays(rds, staged, t),
          raised |-> FALSE]

\* the record of a run that ended as r says
RunEnded(kind, route_id, hours, window, staged, fault, r) ==
    [NoCalc EXCEPT !.kind = kind, !.route_id = route_id, !.hours = hours,
                   !.window = window, !.fault = fault, !.raised = r.raised,
                   !.updates = Len(staged.updates), !.inserts = Len(staged.inserts),
                   !.again = /\ ~r.raised /\ ~calc.raised /\ calc.runs = 1
                             /\ calc.route_id = route_id /\ calc.window = window,
                   !.runs = 1]

----------------------------------------------------------------------------
(* calculate_route_delays called on tables the collector has filled *)

\* the instants of collection: two in hour 0, one in hour 1, and one in
\* hour 1 of the next day, at which the calls are made
CalcTimes == {0, 540, 3700, 90100}
CalcNows == {90100}

CalcSnaps == { Snapshot("v1", "Red", 42), Snapshot("v2", "Red", 42),
               Snapshot("v3", "77", 42) }

InitCalc ==
    /\ CollectorIdle
    /\ \E log \in Logs(CalcSnaps, CalcTimes, MaxDelayEvents) :
        \E store \in {Tables(log)} :
           /\ vehicles = store.vehicles
           /\ events = store.events
    /\ route_delays = <<>>
    /\ now \in CalcNows
    /\ parse = ParseIdle
    /\ hw = HwIdle
    /\ bunch = BunchIdle
    /\ api = ApiIdle
    /\ DelayIdle
    /\ LegacyIdle

\* calculate_route_delays(route_id, hours), in which the storage call named
\* by fault raises
CalculateRouteDelays(route_id, hours, fault) ==
    /\ \E window \in {DelayEvents(events, route_id, now - hours * 3600)} :
       \E staged \in {Staged(window, route_delays, route_id, now)} :
       \E r \in {EndRun(route_delays, window, staged, now, fault)} :
           /\ route_delays' = r.route_delays
           /\ calc' = RunEnded("direct", route_id, hours, window, staged, fault, r)
    /\ UNCHANGED <<vehicles, events, now, parse, hw, bunch, api, reqs>>
    /\ UNCHANGED cvars
    /\ UNCHANGED lvars

NextCalc ==
    \E route_id \in DelayRoutes, hours \in CalcHours, fault \in DelayFaults :
        CalculateRouteDelays(route_id, hours, fault)

CalcSpec == InitCalc /\ [][NextCalc]_vars

----------------------------------------------------------------------------
(* GET /routes/{route_id}/delays, with the collector committing cycles in  *)
(* between. The slots are server processes on one database: each runs its  *)
(* handlers one at a time (they are coroutines without an await), each     *)
(* request has a session of its own (get_db), and neither the handler nor  *)
(* the table (idx_route_hour is an Index, not a unique constraint) orders   *)
(* the reads and the commit of one request against those of another        *)

\* the instants at which something happens: two in hour 0 and two in hour 0
\* of the next day
DelayInstants == <<0, 540, 86940, 87480>>

\* what a committed cycle collected
DelaySnaps == { <<Snapshot("v1", "Red", 42)>> }

\* NeedsRecompute that ignores the history
RecomputeAlways(delay_history) == TRUE

\* if not delay_history
NeedsRecompute(delay_history) == delay_history = <<>>

InitDelay ==
    /\ CollectorIdle
    /\ vehicles = <<>>
    /\ events = <<>>
    /\ route_delays = <<>>
    /\ now = DelayInstants[1]
    /\ parse = ParseIdle
    /\ hw = HwIdle
    /\ bunch = BunchIdle
    /\ api = ApiIdle
    /\ DelayIdle
    /\ LegacyIdle

\* a cycle commits snaps: the store part of collect_telemetry
CollectorCommit(snaps) ==
    /\ Len(events) + Len(snaps) <= MaxDelayEvents
    /\ IF events = <<>> THEN TRUE ELSE events[Len(events)].timestamp < now
    /\ \E store \in {Commit(Stage(snaps, vehicles, now), vehicles, events)} :
           /\ vehicles' = store.vehicles
           /\ events' = store.events
    /\ UNCHANGED <<route_delays, now, parse, hw, bunch, api, reqs, calc>>
    /\ UNCHANGED cvars
    /\ UNCHANGED lvars

\* the clock reaches the next instant; the instants are minutes apart and no
\* request lasts that long
Tick ==
    /\ \A s \in 1..NCalls : reqs[s].pc = "idle"
    /\ \E k \in 1..(Len(DelayInstants) - 1) :
           /\ now = DelayInstants[k]
           /\ now' = DelayInstants[k + 1]
    /\ UNCHANGED <<vehicles, events, route_delays, parse, hw, bunch, api, reqs, calc>>
    /\ UNCHANGED cvars
    /\ UNCHANGED lvars

\* get_route_delays(route_id, hours) in slot s: the history is read and
\* returned, or, if there is none, calculate_route_delays reads the events
\* and the existing rows and stages its writes
GetRouteDelays(s, route_id, hours) ==
    /\ reqs[s].pc = "idle"
    /\ \E first \in {DelayHistory(route_delays, route_id, hours, now)} :
           IF NeedsRecompute(first)
           THEN \E window \in {DelayEvents(events, route_id, now - hours * 3600)} :
                /\ reqs' = [reqs EXCEPT ![s] =
                              [pc |-> "calc", route_id |-> route_id, hours |-> hours,
                               window |-> window,
                               staged |-> Staged(window, route_delays, route_id, now),
                               first |-> first]]
                /\ calc' = calc
           ELSE /\ calc' = [NoCalc EXCEPT !.kind = "api", !.route_id = route_id,
                                          !.hours = hours, !.reads = 1,
                                          !.delays = first]
                /\ reqs' = reqs
    /\ UNCHANGED <<vehicles, events, route_delays, now, parse, hw, bunch, api>>
    /\ UNCHANGED cvars
    /\ UNCHANGED lvars

\* the rest of the request in slot s: the run ends, the handler logs its
\* exception or reads the history again, and responds
FinishRouteDelays(s, fault) ==
    /\ reqs[s].pc = "calc"
    /\ \E req \in {reqs[s]} :
       \E r \in {EndRun(route_delays, req.window, req.staged, now, fault)} :
           /\ route_delays' = r.route_delays
           /\ calc' = [RunEnded("api", req.route_id, req.hours, req.window,
                                req.staged, fault, r)
                          EXCEPT !.reads = IF r.raised THEN 1 ELSE 2,
                                 !.delays = IF r.raised THEN req.first
                                            ELSE DelayHistory(r.route_delays,
                                                              req.route_id,
                                                              req.hours, now)]
    /\ reqs' = [reqs EXCEPT ![s] = IdleReq]
    /\ UNCHANGED <<vehicles, events, now, parse, hw, bunch, api>>
    /\ UNCHANGED cvars
    /\ UNCHANGED lvars

NextDelay ==
    \/ \E snaps \in DelaySnaps : CollectorCommit(snaps)
    \/ Tick
    \/ \E s \in 1..NCalls, route_id \in DelayRoutes, hours \in DelayHours :
          GetRouteDelays(s, route_id, hours)
    \/ \E s \in 1..NCalls, fault \in DelayFaults : FinishRouteDelays(s, fault)

DelaySpec == InitDelay /\ [][NextDelay]_vars

----------------------------------------------------------------------------
(* AlertDetector.detect_bunching called on a vehicles table the collector   *)
(* has filled. Times are in seconds                                         *)

\* cycles the table was filled by at most
MaxBunchEvents == 3

\* timedelta(minutes=5) and BUNCHING_THRESHOLD_SECONDS
BunchingWindow == 300
BunchingThreshold == 180

\* what the cycles collected: three vehicles of Red, one of them also at
\* latitude 0.0 or without a position, and one vehicle of Blue
BunchSnaps == { Snapshot("v1", "Red", 42), Snapshot("v2", "Red", 42),
                Snapshot("v2", "Red", 0), Snapshot("v2", "Red", NoneNum),
                Snapshot("v3", "Red", 42), Snapshot("v4", "Blue", 42) }

\* the instants of collection, and the instant of the call
BunchTimes == {600, 820, 880, 1000}
BunchNows == {1000}
BunchRoutes == {"Red", "Blue"}

\* ORDER BY last_updated over the rows at the positions idx: every sequence
\* sorted on last_updated; rows updated at the same instant come in any order
RECURSIVE OrderByLastUpdated(_, _)
OrderByLastUpdated(rows, idx) ==
    IF idx = {} THEN { <<>> }
    ELSE UNION { { <<rows[i]>> \o rest : rest \in OrderByLastUpdated(rows, idx \ {i}) } :
                   i \in { k \in idx : \A j \in idx :
                                         rows[k].last_updated <= rows[j].last_updated } }

\* the filter of the query: route, cutoff, latitude and longitude not NULL
BunchSelected(rows, route_id, t) ==
    { i \in 1..Len(rows) :
        /\ rows[i].route_id = route_id
        /\ rows[i].last_updated >= t - BunchingWindow
        /\ rows[i].latitude # NoneNum
        /\ rows[i].longitude # NoneNum }

\* the truth value of a float column: None and 0.0 are false
TruthyFloat(x) == x # NoneNum /\ x # 0

\* the alert of the pair v1, v2
BunchingAlert(route_id, v1, v2, t) ==
    [type |-> "bunching", route_id |-> route_id, vehicle_1 |-> v1.vehicle_id,
     vehicle_2 |-> v2.vehicle_id,
     time_between_seconds |-> v2.last_updated - v1.last_updated,
     severity |-> "warning", timestamp |-> t]

\* BunchingFrom that takes a gap of 0 seconds for bunching
RECURSIVE BunchingFromZeroGap(_, _, _, _)
BunchingFromZeroGap(rows, i, route_id, t) ==
    IF i >= Len(rows) THEN <<>>
    ELSE LET v1 == rows[i]
             v2 == rows[i + 1]
             time_diff == v2.last_updated - v1.last_updated
         IN  (IF /\ TruthyFloat(v1.latitude) /\ TruthyFloat(v2.latitude)
                 /\ TruthyFloat(v1.longitude) /\ TruthyFloat(v2.longitude)
                 /\ 0 <= time_diff /\ time_diff < BunchingThreshold
              THEN <<BunchingAlert(route_id, v1, v2, t)>>
              ELSE <<>>)
             \o BunchingFromZeroGap(rows, i + 1, route_id, t)

\* the loop over the adjacent pairs from position i on
RECURSIVE BunchingFrom(_, _, _, _)
BunchingFrom(rows, i, route_id, t) ==
    IF i >= Len(rows) THEN <<>>
    ELSE LET v1 == rows[i]
             v2 == rows[i + 1]
             time_diff == v2.last_updated - v1.last_updated
         IN  (IF /\ TruthyFloat(v1.latitude) /\ TruthyFloat(v2.latitude)
                 /\ TruthyFloat(v1.longitude) /\ TruthyFloat(v2.longitude)
                 /\ 0 < time_diff /\ time_diff < BunchingThreshold
              THEN <<BunchingAlert(route_id, v1, v2, t)>>
              ELSE <<>>)
             \o BunchingFrom(rows, i + 1, route_id, t)

InitBunching ==
    /\ CollectorIdle
    /\ \E log \in Logs(BunchSnaps, BunchTimes, MaxBunchEvents) :
        \E store \in {Tables(log)} :
           /\ vehicles = store.vehicles
           /\ events = store.events
    /\ route_delays = <<>>
    /\ now \in BunchNows
    /\ QueryIdle
    /\ LegacyIdle

\* detect_bunching(route_id)
DetectBunching(route_id) ==
    /\ bunch.pc = "idle"
    /\ \E rows \in OrderByLastUpdated(vehicles, BunchSelected(vehicles, route_id, now)) :
           bunch' = [pc |-> "done", route_id |-> route_id,
                     alerts |-> BunchingFrom(rows, 1, route_id, now)]
    /\ UNCHANGED <<vehicles, events, route_delays, now, parse, hw, api, reqs, calc>>
    /\ UNCHANGED cvars
    /\ UNCHANGED lvars

NextBunching == \E route_id \in BunchRoutes : DetectBunching(route_id)

BunchingSpec == InitBunching /\ [][NextBunching]_vars

----------------------------------------------------------------------------
(* AlertDetector and the handlers GET /alerts and GET /health, on a         *)
(* vehicles table the collector has filled. Times are in seconds            *)

\* cycles the tables were filled by at most
MaxApiEvents == 3

\* timedelta(minutes=5) and SPEED_ANOMALY_THRESHOLD of the speed detector,
\* timedelta(minutes=10) of the stalled detector, timedelta(minutes=2) of the
\* health check
SpeedWindow == 300
SpeedThreshold == 60
StalledAge == 600
HealthWindow == 120

\* what the cycles collected: a fast vehicle, the same vehicle stopped at the
\* threshold speed, a vehicle without speed, and a fast vehicle of Blue
ApiSnaps ==
    { [Snapshot("v1", "Red", 42) EXCEPT !.speed = 70],
      [Snapshot("v1", "Red", 42) EXCEPT !.speed = 60, !.current_status = "STOPPED_AT"],
      [Snapshot("v2", "Red", 42) EXCEPT !.speed = NoneNum],
      [Snapshot("v3", "Blue", 42) EXCEPT !.speed = 70] }

\* the instants of collection, and the instants of the calls
ApiTimes == {0, 480, 540}
ApiNows == {600, 660}
ApiRoutes == {"Red", "Blue"}

\* what the clock has advanced by when an alert reads it: seconds, microseconds
ApiStamps == { [s |-> 0, us |-> 0], [s |-> 0, us |-> 500000], [s |-> 1, us |-> 0] }

\* the rows at the positions idx in an order the database chooses
RECURSIVE AnyOrder(_, _)
AnyOrder(rows, idx) ==
    IF idx = {} THEN { <<>> }
    ELSE UNION { { <<rows[i]>> \o rest : rest \in AnyOrder(rows, idx \ {i}) } : i \in idx }

\* the filter of detect_speed_anomalies
SpeedSelected(rows, route_id, t) ==
    { i \in 1..Len(rows) :
        /\ rows[i].route_id = route_id
        /\ rows[i].last_updated >= t - SpeedWindow
        /\ rows[i].speed # NoneNum }

\* SpeedExceeds that takes the threshold speed as an anomaly
SpeedAtLeast(speed) == speed >= SpeedThreshold

\* vehicle.speed > SPEED_ANOMALY_THRESHOLD
SpeedExceeds(speed) == speed > SpeedThreshold

\* the loop of detect_speed_anomalies over the selected rows
SpeedFrom(rows, route_id, t) ==
    LET hit == SelectSeq(rows, LAMBDA v : v.speed # NoneNum /\ SpeedExceeds(v.speed))
    IN  [ k \in 1..Len(hit) |->
            [type |-> "speed_anomaly", route_id |-> route_id,
             vehicle_id |-> hit[k].vehicle_id, speed |-> hit[k].speed,
             severity |-> "warning", timestamp |-> t] ]

\* StalledSelected for the route of the request only
StalledOfRoute(rows, route_id, t) ==
    { i \in 1..Len(rows) :
        /\ rows[i].last_updated < t - StalledAge
        /\ rows[i].current_status = "IN_TRANSIT_TO"
        /\ Truthy(route_id) => rows[i].route_id = route_id }

\* the filter of detect_stalled_vehicles; it takes no route
StalledSelected(rows, route_id, t) ==
    { i \in 1..Len(rows) :
        /\ rows[i].last_updated < t - StalledAge
        /\ rows[i].current_status = "IN_TRANSIT_TO" }

\* the loop of detect_stalled_vehicles over the selected rows
StalledFrom(rows, t) ==
    [ k \in 1..Len(rows) |->
        [type |-> "stalled", route_id |-> rows[k].route_id,
         vehicle_id |-> rows[k].vehicle_id, last_update |-> rows[k].last_updated,
         severity |-> "info", timestamp |-> t] ]

\* routes of get_all_alerts: the route given, or the distinct route ids of the
\* table that are not empty, in an order the database chooses
AlertRoutes(rows, route_id) ==
    IF Truthy(route_id) THEN { <<route_id>> }
    ELSE LET ids  == { rows[i].route_id : i \in 1..Len(rows) }
             live == [ k \in 1..Len(RouteIds) |-> RouteIds[k] ]
         IN  AnyOrder(live, { k \in 1..Len(RouteIds) :
                                RouteIds[k] \in ids /\ Truthy(RouteIds[k]) })

\* the loop over the routes: bunching, then speed, of each
RECURSIVE RouteAlerts(_, _, _)
RouteAlerts(rows, routes, t) ==
    IF routes = <<>> THEN { <<>> }
    ELSE UNION { UNION { { BunchingFrom(b, 1, Head(routes), t)
                             \o SpeedFrom(sp, Head(routes), t) \o rest :
                           rest \in RouteAlerts(rows, Tail(routes), t) } :
                         sp \in AnyOrder(rows, SpeedSelected(rows, Head(routes), t)) } :
                 b \in OrderByLastUpdated(rows, BunchSelected(rows, Head(routes), t)) }

\* get_all_alerts(route_id): the lists it can return
GetAllAlerts(rows, route_id, t) ==
    UNION { UNION { { ra \o StalledFrom(st, t) : ra \in RouteAlerts(rows, routes, t) } :
                    st \in AnyOrder(rows, StalledSelected(rows, route_id, t)) } :
            routes \in AlertRoutes(rows, route_id) }

\* n in decimal with width digits, as character codes
RECURSIVE Digits(_, _)
Digits(n, width) ==
    IF width = 0 THEN <<>> ELSE Append(Digits(n \div 10, width - 1), 48 + (n % 10))

\* datetime.isoformat(), as character codes: the fields up to the second have
\* a fixed width (four digits stand for them), ".ffffff" follows only if the
\* microsecond is not 0
IsoFormat(sec, us) ==
    Digits(sec, 4) \o (IF us = 0 THEN <<>> ELSE <<46>> \o Digits(us, 6))

\* StrLess that compares the lengths first
StrLessByLength(a, b) ==
    \/ Len(a) < Len(b)
    \/ /\ Len(a) = Len(b)
       /\ \E k \in 1..Len(a) : a[k] < b[k] /\ \A j \in 1..(k - 1) : a[j] = b[j]

\* a < b on str
StrLess(a, b) ==
    \/ \E k \in 1..Len(a) : /\ k <= Len(b)
                            /\ a[k] < b[k]
                            /\ \A j \in 1..(k - 1) : a[j] = b[j]
    \/ /\ Len(a) < Len(b)
       /\ \A j \in 1..Len(a) : a[j] = b[j]

\* severity_order.get(severity, 2)
SeverityRank(severity) ==
    CASE severity = "error" -> 0
      [] severity = "warning" -> 1
      [] severity = "info" -> 2
      [] OTHER -> 2

\* the sort key of a is less than that of b
AlertKeyLess(a, b) ==
    \/ SeverityRank(a.severity) < SeverityRank(b.severity)
    \/ /\ SeverityRank(a.severity) = SeverityRank(b.severity)
       /\ StrLess(a.timestamp, b.timestamp)

\* alerts.sort(key=...): stable
RECURSIVE SortAlerts(_)
SortAlerts(alerts) ==
    IF alerts = <<>> THEN <<>>
    ELSE LET front == SortAlerts(SubSeq(alerts, 1, Len(alerts) - 1))
             a     == alerts[Len(alerts)]
             keep  == { k \in 1..Len(front) : ~AlertKeyLess(a, front[k]) }
             n     == IF keep = {} THEN 0 ELSE CHOOSE k \in keep : \A j \in keep : j <= k
         IN  SubSeq(front, 1, n) \o <<a>> \o SubSeq(front, n + 1, Len(front))

\* the alerts with the timestamps their calls of utcnow().isoformat() gave
Stamped(alerts, stamps, t) ==
    [ k \in 1..Len(alerts) |->
        [alerts[k] EXCEPT !.timestamp = IsoFormat(t + stamps[k].s, stamps[k].us)] ]

\* the largest last_updated of the table: order_by(last_updated.desc()).first()
LastCollection(rows) ==
    IF rows = <<>> THEN NoTime
    ELSE CHOOSE t \in { rows[i].last_updated : i \in 1..Len(rows) } :
             \A i \in 1..Len(rows) : rows[i].last_updated <= t

\* func.min(TelemetryEvent.timestamp)
FirstCollection(evs) ==
    IF evs = <<>> THEN NoTime
    ELSE CHOOSE t \in { evs[i].timestamp : i \in 1..Len(evs) } :
             \A i \in 1..Len(evs) : t <= evs[i].timestamp

\* the body of health_check; fault names the statement that raises, or "none"
HealthResponse(rows, evs, t, fault) ==
    IF fault # "none"
    THEN [op |-> "health", code |-> 503, status |-> "unhealthy",
          database |-> "disconnected"]
    ELSE LET last_collection == LastCollection(rows)
             is_recent == /\ last_collection # NoTime
                          /\ t - last_collection < HealthWindow
             first     == FirstCollection(evs)
             uptime    == IF rows # <<>> /\ first # NoTime THEN t - first ELSE 0
         IN  IF ~is_recent /\ last_collection # NoTime
             THEN [op |-> "health", code |-> 503, status |-> "unhealthy",
                   database |-> "connected",
                   last_collection |-> IsoFormat(last_collection, 0),
                   uptime_seconds |-> uptime, vehicles_tracked |-> Len(rows)]
             ELSE [op |-> "health", code |-> 200, status |-> "healthy",
                   database |-> "connected",
                   last_collection |-> IF last_collection # NoTime
                                       THEN IsoFormat(last_collection, 0) ELSE <<>>,
                   uptime_seconds |-> uptime, vehicles_tracked |-> Len(rows)]

InitAlerts ==
    /\ CollectorIdle
    /\ \E log \in Logs(ApiSnaps, ApiTimes, MaxApiEvents) :
        \E store \in {Tables(log)} :
           /\ vehicles = store.vehicles
           /\ events = store.events
    /\ route_delays = <<>>
    /\ now \in ApiNows
    /\ QueryIdle
    /\ LegacyIdle

\* detect_speed_anomalies(route_id)
DetectSpeedAnomalies(route_id) ==
    /\ api = ApiIdle
    /\ \E rows \in AnyOrder(vehicles, SpeedSelected(vehicles, route_id, now)) :
           api' = [op |-> "speed", route_id |-> route_id,
                   alerts |-> SpeedFrom(rows, route_id, now)]
    /\ UNCHANGED <<vehicles, events, route_delays, now, parse, hw, bunch, reqs, calc>>
    /\ UNCHANGED cvars
    /\ UNCHANGED lvars

\* GetAlerts that also deletes the rows of the stalled vehicles it reports
GetAlertsDeletingStalled(route_id) ==
    /\ api = ApiIdle
    /\ \E alerts \in GetAllAlerts(vehicles, route_id, now) :
       \E stamps \in [1..Len(alerts) -> ApiStamps] :
           api' = [op |-> "alerts", route_id |-> route_id, count |-> Len(alerts),
                   alerts |-> SortAlerts(Stamped(alerts, stamps, now))]
    /\ vehicles' = SelectSeq(vehicles, LAMBDA row :
                       ~(/\ row.last_updated < now - StalledAge
                         /\ row.current_status = "IN_TRANSIT_TO"))
    /\ UNCHANGED <<events, route_delays, now, parse, hw, bunch, reqs, calc>>
    /\ UNCHANGED cvars
    /\ UNCHANGED lvars

\* get_alerts(route_id)
GetAlerts(route_id) ==
    /\ api = ApiIdle
    /\ \E alerts \in GetAllAlerts(vehicles, route_id, now) :
       \E stamps \in [1..Len(alerts) -> ApiStamps] :
           api' = [op |-> "alerts", route_id |-> route_id, count |-> Len(alerts),
                   alerts |-> SortAlerts(Stamped(alerts, stamps, now))]
    /\ UNCHANGED <<vehicles, events, route_delays, now, parse, hw, bunch, reqs, calc>>
    /\ UNCHANGED cvars
    /\ UNCHANGED lvars

\* health_check(), in which the statement named by fault raises
HealthCheck(fault) ==
    /\ api = ApiIdle
    /\ api' = HealthResponse(vehicles, events, now, fault)
    /\ UNCHANGED <<vehicles, events, route_delays, now, parse, hw, bunch, reqs, calc>>
    /\ UNCHANGED cvars
    /\ UNCHANGED lvars

\* the caller has the response; the next call can be made
ApiReturn ==
    /\ api # ApiIdle
    /\ api' = ApiIdle
    /\ UNCHANGED <<vehicles, events, route_delays, now, parse, hw, bunch, reqs, calc>>
    /\ UNCHANGED cvars
    /\ UNCHANGED lvars

NextAlerts ==
    \/ \E route_id \in ApiRoutes : DetectSpeedAnomalies(route_id)
    \/ \E route_id \in {Null} \cup ApiRoutes : GetAlerts(route_id)
    \/ \E fault \in {"none", "execute"} : HealthCheck(fault)
    \/ ApiReturn

AlertsSpec == InitAlerts /\ [][NextAlerts]_vars

----------------------------------------------------------------------------
(* The store under every operation that reaches it: the collector commits  *)
(* cycles while the handlers GET /routes/{route_id}/delays,                 *)
(* GET /routes/{route_id}/headways, GET /alerts and GET /health run         *)

\* the arguments of the delay request and the route of the other requests
StoreHours == {48}
StoreRoutes == {Null, "Red"}

\* the caller has the headway response; the next call can be made
HeadwayReturn ==
    /\ hw # HwIdle
    /\ hw' = HwIdle
    /\ UNCHANGED <<vehicles, events, route_delays, now, parse, bunch, api, reqs, calc>>
    /\ UNCHANGED cvars
    /\ UNCHANGED lvars

NextStore ==
    \/ \E snaps \in DelaySnaps : CollectorCommit(snaps)
    \/ Tick
    \/ \E hours \in StoreHours : GetRouteDelays(1, "Red", hours)
    \/ \E fault \in DelayFaults : FinishRouteDelays(1, fault)
    \/ \E route_id \in StoreRoutes : GetHeadwayAnalysis(route_id)
    \/ HeadwayReturn
    \/ \E route_id \in StoreRoutes : GetAlerts(route_id)
    \/ HealthCheck("none")
    \/ ApiReturn

StoreSpec == InitDelay /\ [][NextStore]_vars

----------------------------------------------------------------------------
(* RouteAnalyzer (src/analytics/route_analyzer.py) on the tables trips and  *)
(* vehicles of src/database/models.py. The analyzer has a session of its    *)
(* own and reads committed rows. Times are in seconds; NoTime is None       *)

\* rows of trips and rows of vehicles at most; the primary key of both is id
MaxTrips == 4
MaxPositions == 3

\* BUNCHING_THRESHOLD
AnalyzerBunchingThreshold == 300

AnalyzerRoutes == {"Red", "Blue"}

\* status, start_time and end_time of a trip: as collect_trips stores them
\* (start and end are both set when the prediction carries a time, and both
\* None when it carries none), and with a start only, as the rows of
\* test_calculate_completion_rate
TripShapes ==
    { [status |-> "COMPLETED", start_time |-> 100, end_time |-> 1900],
      [status |-> "COMPLETED", start_time |-> 100, end_time |-> NoTime],
      [status |-> "IN_PROGRESS", start_time |-> 100, end_time |-> 1900],
      [status |-> "CANCELLED", start_time |-> NoTime, end_time |-> NoTime] }

\* the timestamps of the rows of vehicles
PositionTimes == {0, 120, 420, 1200}

\* tables of at most n rows with the ids 1..n, each row a member of shapes
\* with its id
TablesOf(shapes, n) ==
    { { [id |-> i] @@ f[i] : i \in { j \in 1..n : f[j] # [route_id |-> Absent] } } :
        f \in [1..n -> {[route_id |-> Absent]} \cup shapes] }

TripTables ==
    TablesOf({ [route_id |-> r] @@ sh : r \in AnalyzerRoutes, sh \in TripShapes }, MaxTrips)

PositionTables ==
    TablesOf({ [route_id |-> r, timestamp |-> t] : r \in AnalyzerRoutes, t \in PositionTimes },
             MaxPositions)

\* the truth value of a DateTime column: None is false
TruthyTime(t) == t # NoTime

\* calculate_completion_rate(route_id), as the fraction it returns
calculate_completion_rate(trips, route_id) ==
    LET of_route  == { t \in trips : t.route_id = route_id }
        completed == { t \in of_route : TruthyTime(t.start_time) /\ TruthyTime(t.end_time) }
    IN  IF of_route = {} THEN Quot(0, 1)
        ELSE Quot(Cardinality(completed), Cardinality(of_route))

\* the timestamps of rows, ORDER BY timestamp
RECURSIVE OrderedTimes(_)
OrderedTimes(rows) ==
    IF rows = {} THEN <<>>
    ELSE LET first == CHOOSE r \in rows : \A q \in rows : r.timestamp <= q.timestamp
         IN  <<first.timestamp>> \o OrderedTimes(rows \ {first})

\* IsBunched that counts a headway equal to the threshold
IsBunchedAtThreshold(h) == h <= AnalyzerBunchingThreshold

\* h < BUNCHING_THRESHOLD
IsBunched(h) == h < AnalyzerBunchingThreshold

\* detect_bunching(route_id), as the fraction it returns; np.diff gives the
\* differences of adjacent timestamps
analyzer_detect_bunching(positions, route_id) ==
    LET timestamps == OrderedTimes({ v \in positions : v.route_id = route_id })
        headways   == [ k \in 1..(Len(timestamps) - 1) |-> timestamps[k + 1] - timestamps[k] ]
        bunching_count == Cardinality({ k \in 1..Len(headways) : IsBunched(headways[k]) })
    IN  IF Len(timestamps) < 2 THEN Quot(0, 1)
        ELSE Quot(bunching_count, Len(headways))

\* the database holds trips or vehicles; nothing else of the system runs
InitAnalyzer ==
    /\ CollectorIdle
    /\ vehicles = <<>>
    /\ events = <<>>
    /\ route_delays = <<>>
    /\ now = 0
    /\ QueryIdle
    /\ \/ \E trips \in TripTables : db = [NoTables EXCEPT !.trips = trips]
       \/ \E positions \in PositionTables : db = [NoTables EXCEPT !.vehicles = positions]
    /\ session = {}
    /\ tasks = <<>>
    /\ analyzer = [op |-> "none"]

\* RouteAnalyzer.calculate_completion_rate(route_id)
CalculateCompletionRate(route_id) ==
    /\ analyzer' = [op |-> "completion_rate", route_id |-> route_id,
                    value |-> calculate_completion_rate(db.trips, route_id)]
    /\ UNCHANGED <<vehicles, events, route_delays, now, db, session, tasks>>
    /\ UNCHANGED cvars
    /\ UNCHANGED qvars

\* RouteAnalyzer.detect_bunching(route_id)
AnalyzerDetectBunching(route_id) ==
    /\ analyzer' = [op |-> "bunching", route_id |-> route_id,
                    value |-> analyzer_detect_bunching(db.vehicles, route_id)]
    /\ UNCHANGED <<vehicles, events, route_delays, now, db, session, tasks>>
    /\ UNCHANGED cvars
    /\ UNCHANGED qvars

NextAnalyzer ==
    \/ \E route_id \in AnalyzerRoutes : CalculateCompletionRate(route_id)
    \/ \E route_id \in AnalyzerRoutes : AnalyzerDetectBunching(route_id)

AnalyzerSpec == InitAnalyzer /\ [][NextAnalyzer]_vars

----------------------------------------------------------------------------
(* MbtACollector.collect_all (src/collectors/mbta_collector.py): five       *)
(* coroutines gathered on one event loop, all using self.session. A         *)
(* coroutine gives way only while it awaits fetch_data; what it does with    *)
(* the data it got, up to its commit, rollback or exception, is one step     *)

\* items of one response at most
MaxFetched == 2

\* the coroutines, named by the table they write
Collectors == {"vehicles", "trips", "alerts", "routes", "stops"}

\* the route the database holds from an earlier round
KnownRoute == "Red"

\* what fetch_data returns: None after its attempts, or a document with a
\* data array; an item is "ok", or "bad" when building its row raises (an
\* item without attributes, a time that fromisoformat rejects)
FetchData ==
    {[got |-> FALSE, data |-> <<>>]}
        \cup { [got |-> TRUE, data |-> s] : s \in SeqsUpTo({"ok", "bad"}, MaxFetched) }

\* collect_vehicles and collect_stops wrap their loop and commit in
\* try/except with a rollback; the other three do not
CatchesErrors(c) == c \in {"vehicles", "stops"}

\* the position of the first item that raises, Len(data) + 1 if none does
FirstBad(data) ==
    IF \E k \in 1..Len(data) : data[k] = "bad"
    THEN CHOOSE k \in 1..Len(data) : data[k] = "bad" /\ \A m \in 1..(k - 1) : data[m] = "ok"
    ELSE Len(data) + 1

\* the row built from item k of the response for route_id
ItemRow(c, route_id, k) ==
    IF c = "routes" THEN [id |-> KnownRoute] ELSE [id |-> k, route_id |-> route_id]

\* session.merge of the rows of the items before position n: a pending row
\* with the same primary key is replaced
MergeRows(pending, c, route_id, n) ==
    LET merged == { [table |-> c, row |-> ItemRow(c, route_id, k)] : k \in 1..(n - 1) }
    IN  { p \in pending : ~\E q \in merged : q.table = p.table /\ q.row.id = p.row.id }
            \cup merged

\* session.commit(): every pending row of the session is written, whichever
\* coroutine merged it
CommitSession(tables, pending, c) ==
    [ t \in DOMAIN tables |->
        { r \in tables[t] : ~\E p \in pending : p.table = t /\ p.row.id = r.id }
            \cup { p.row : p \in { q \in pending : q.table = t } } ]

\* what coroutine c does with the data it got for route_id
Process(c, route_id, fetched, tables, pending) ==
    IF ~fetched.got THEN [db |-> tables, session |-> pending, raised |-> FALSE]
    ELSE LET data   == fetched.data
             n      == FirstBad(data)
             merged == MergeRows(pending, c, route_id, n)
         IN  IF n > Len(data)
             THEN [db |-> CommitSession(tables, merged, c), session |-> {},
                   raised |-> FALSE]
             ELSE IF CatchesErrors(c)
             THEN [db |-> tables, session |-> {}, raised |-> FALSE]
             ELSE [db |-> tables, session |-> merged, raised |-> TRUE]

\* the routes a coroutine loops over: session.query(Route).all(); collect_routes
\* makes one request
Todo(c, tables) ==
    IF c = "routes" THEN <<Null>>
    ELSE SelectSeq(RouteIds, LAMBDA r : \E row \in tables.routes : row.id = r)

Finished(c) == tasks[c].pc \in {"done", "raised"}

InitCollect ==
    /\ CollectorIdle
    /\ vehicles = <<>>
    /\ events = <<>>
    /\ route_delays = <<>>
    /\ now = 0
    /\ QueryIdle
    /\ db = [NoTables EXCEPT !.routes = {[id |-> KnownRoute]}]
    /\ session = {}
    /\ tasks = <<>>
    /\ analyzer = [op |-> "none"]

\* collect_all up to the gather: every coroutine runs to its first request.
\* run() calls it again; the rounds are taken one after the other
CollectAll ==
    /\ IF tasks = <<>> THEN TRUE ELSE \A c \in Collectors : Finished(c)
    /\ tasks' = [ c \in Collectors |->
                    IF Todo(c, db) = <<>> THEN [pc |-> "done", todo |-> <<>>]
                    ELSE [pc |-> "fetching", todo |-> Todo(c, db)] ]
    /\ UNCHANGED <<vehicles, events, route_delays, now, db, session, analyzer>>
    /\ UNCHANGED cvars
    /\ UNCHANGED qvars

\* fetch_data returns data to coroutine c, which runs to its next request, to
\* its end or to the exception that ends it
FetchReturns(c, data) ==
    /\ tasks # <<>>
    /\ tasks[c].pc = "fetching"
    /\ \E r \in {Process(c, Head(tasks[c].todo), data, db, session)} :
           /\ db' = r.db
           /\ session' = r.session
           /\ tasks' = [tasks EXCEPT ![c] =
                          IF r.raised THEN [pc |-> "raised", todo |-> <<>>]
                          ELSE IF Tail(tasks[c].todo) = <<>>
                          THEN [pc |-> "done", todo |-> <<>>]
                          ELSE [pc |-> "fetching", todo |-> Tail(tasks[c].todo)]]
    /\ UNCHANGED <<vehicles, events, route_delays, now, analyzer>>
    /\ UNCHANGED cvars
    /\ UNCHANGED qvars

NextCollect ==
    \/ CollectAll
    \/ \E c \in Collectors, data \in FetchData : FetchReturns(c, data)

CollectSpec == InitCollect /\ [][NextCollect]_vars

----------------------------------------------------------------------------
(* Properties of parse_vehicle_data, checked under ParseSpec *)

\* the name the fallback chain long name, short name, route id gives route
\* rid: a name that is missing, null or empty is no name, and of several
\* included route resources with the id the last one counts
FallbackName(api_response, rid) ==
    LET inc == IF "included" \in api_response.keys THEN api_response.included ELSE <<>>
        idx == { j \in 1..Len(inc) : inc[j].type = "route" /\ inc[j].id = rid }
    IN  IF idx = {} THEN rid
        ELSE LET it == inc[CHOOSE j \in idx : \A k \in idx : k <= j]
             IN  IF Truthy(it.long_name) THEN it.long_name
                 ELSE IF Truthy(it.short_name) THEN it.short_name
                 ELSE rid

\* C12: every vehicle record that references a route gets as route name the
\* included route's long name if it has one, else its short name if it has
\* one, else the route id, whatever of present, absent, null and empty the two
\* name attributes are, and the route id if the route is not included
C12_RouteNameFallback ==
    parse.pc = "parsed" =>
        \A i \in 1..Len(parse.result.snaps) :
            parse.api_response.data[i].route # Absent =>
                parse.result.snaps[i].route_name =
                    FallbackName(parse.api_response, parse.api_response.data[i].route)

----------------------------------------------------------------------------
(* Properties of the headway analysis, checked under HeadwaySpec *)

HwVehicleIds == <<"v1", "v2", "v3">>

\* the rows of route r, and of vehicle v on route r, among the rows analysed
RowsOfRoute(r) == SelectSeq(hw.rows, LAMBDA e : e.route_id = r)
RowsOfVehicle(r, v) == SelectSeq(hw.rows, LAMBDA e : e.route_id = r /\ e.vehicle_id = v)

\* the gaps, in minutes, between the consecutive events of a sequence
Gaps(rows) ==
    [ i \in 1..(Len(rows) - 1) |-> Minutes(rows[i + 1].timestamp - rows[i].timestamp) ]

Occurrences(seq, x) == Cardinality({ i \in 1..Len(seq) : seq[i] = x })

RECURSIVE GapOccurrences(_, _, _)
GapOccurrences(r, i, x) ==
    IF i > Len(HwVehicleIds) THEN 0
    ELSE Occurrences(Gaps(RowsOfVehicle(r, HwVehicleIds[i])), x)
           + GapOccurrences(r, i + 1, x)

RoutesAnalysed == { hw.rows[i].route_id : i \in 1..Len(hw.rows) }

\* C13: for every route and every vehicle, the first event of the vehicle on
\* the route emits no headway and every later one emits the gap from the
\* vehicle's previous event, also when the vehicles of the route interleave;
\* so a route has as many headways as events minus distinct vehicles
C13_HeadwayPerVehicle ==
    hw.pc = "done" =>
        \A r \in RoutesAnalysed :
            /\ Len(hw.headways_by_route[r]) =
                  Len(RowsOfRoute(r))
                    - Cardinality({ RowsOfRoute(r)[i].vehicle_id : i \in 1..Len(RowsOfRoute(r)) })
            /\ \A t1, t2 \in HwTimes :
                  t1 < t2 =>
                    Occurrences(hw.headways_by_route[r], Minutes(t2 - t1)) =
                        GapOccurrences(r, 1, Minutes(t2 - t1))

\* the routes analysed on which a single vehicle reported
SingleVehicleRoutes ==
    { r \in RoutesAnalysed :
        \A i, j \in 1..Len(RowsOfRoute(r)) :
            /\ RowsOfRoute(r)[i].vehicle_id = RowsOfRoute(r)[j].vehicle_id
            /\ i < j => RowsOfRoute(r)[i].timestamp < RowsOfRoute(r)[j].timestamp }

----------------------------------------------------------------------------
(* Properties of calculate_route_delays, checked under CalcSpec *)

\* the expected headway of the routes that are called with: Red is listed
\* with 6 minutes, 77 is not listed
ExpectedHeadway(route_id) == IF route_id = "Red" THEN 6 ELSE 10

\* the pairs of positions of consecutive events of one vehicle within the
\* bucket of hour
HourPairs(window, hour) ==
    { p \in (1..Len(window)) \X (1..Len(window)) :
        /\ p[1] < p[2]
        /\ window[p[1]].vehicle_id = window[p[2]].vehicle_id
        /\ Hour(window[p[1]].timestamp) = hour
        /\ Hour(window[p[2]].timestamp) = hour
        /\ ~\E k \in (p[1] + 1)..(p[2] - 1) :
               /\ window[k].vehicle_id = window[p[1]].vehicle_id
               /\ Hour(window[k].timestamp) = hour }

\* the sum of the gaps of the pairs, in seconds
RECURSIVE GapSeconds(_, _)
GapSeconds(window, pairs) ==
    IF pairs = {} THEN 0
    ELSE LET p == CHOOSE q \in pairs : TRUE
         IN  (window[p[2]].timestamp - window[p[1]].timestamp)
                 + GapSeconds(window, pairs \ {p})

\* the rows of RouteDelay for (route_id, hour)
DelayRows(rds, route_id, hour) ==
    { i \in 1..Len(rds) : rds[i].route_id = route_id /\ rds[i].hour_of_day = hour }

\* C15: after a run of calculate_route_delays that did not fail, for every
\* hour of the day in which the events it read hold at least one pair of
\* consecutive events of one vehicle, the row of (route, hour) stores as
\* average delay the mean over those pairs of (gap in minutes - expected
\* headway of the route), and as sample_count the number of those pairs
C15_AverageDelay ==
    (calc.kind = "direct" /\ ~calc.raised) =>
        \A hour \in 0..23 :
            LET pairs == HourPairs(calc.window, hour)
                n     == Cardinality(pairs)
                rows  == DelayRows(route_delays, calc.route_id, hour)
            IN  n > 0 =>
                  /\ rows # {}
                  /\ \A i \in rows :
                       /\ route_delays[i].sample_count = n
                       /\ route_delays[i].avg_delay_minutes.num * (60 * n)
                            = (GapSeconds(calc.window, pairs)
                                 - 60 * n * ExpectedHeadway(calc.route_id))
                              * route_delays[i].avg_delay_minutes.den

\* Red (expected headway 6) with two events of one vehicle 9 minutes apart
\* in hour 0: the row of hour 0 holds one sample, of +3 minutes
C15_Witness ==
    /\ calc.kind = "direct" /\ ~calc.raised /\ calc.route_id = "Red"
    /\ Len(calc.window) = 2
    /\ calc.window[1].vehicle_id = calc.window[2].vehicle_id
    /\ calc.window[1].timestamp = 0
    /\ calc.window[2].timestamp = 540
    /\ \E i \in 1..Len(route_delays) :
         /\ route_delays[i].route_id = "Red"
         /\ route_delays[i].hour_of_day = 0
         /\ route_delays[i].avg_delay_minutes = [num |-> 3, den |-> 1]
         /\ route_delays[i].sample_count = 1

\* C16: a run of calculate_route_delays that follows a successful run for the
\* same route over the same events adds no row and leaves route, hour,
\* average delay and sample count of every row as they were; every hour with
\* samples has exactly one row of the route
C16_SecondRunOverwrites ==
    [][ (calc'.kind = "direct" /\ calc'.again) =>
          /\ Len(route_delays') = Len(route_delays)
          /\ \A i \in 1..Len(route_delays) :
               /\ route_delays'[i].route_id = route_delays[i].route_id
               /\ route_delays'[i].hour_of_day = route_delays[i].hour_of_day
               /\ route_delays'[i].avg_delay_minutes = route_delays[i].avg_delay_minutes
               /\ route_delays'[i].sample_count = route_delays[i].sample_count
          /\ \A hour \in 0..23 :
               LET rows == DelayRows(route_delays', calc'.route_id, hour)
               IN  /\ Cardinality(rows) <= 1
                   /\ HourPairs(calc'.window, hour) # {} => Cardinality(rows) = 1
      ]_vars

\* a second run over the same events has overwritten the rows of the first
C16_Witness ==
    /\ calc.kind = "direct" /\ calc.again
    /\ calc.updates >= 1 /\ calc.inserts = 0
    /\ route_delays # <<>>

\* C18: a run of calculate_route_delays in which a storage call fails leaves
\* RouteDelay as it was before the call and raises to its caller
C18_StorageErrorRollsBack ==
    [][ ( /\ calc'.kind = "direct"
          /\ calc'.fault # "none"
          /\ (calc'.fault = "query" \/ calc'.window # <<>>) ) =>
            /\ route_delays' = route_delays
            /\ calc'.raised
      ]_vars

\* the commit of a run that had staged a new row failed: the table is empty
\* as before and the call raised
C18_Witness ==
    /\ calc.kind = "direct" /\ calc.fault = "commit" /\ calc.raised
    /\ calc.inserts >= 1
    /\ route_delays = <<>>

----------------------------------------------------------------------------
(* Properties of GET /routes/{route_id}/delays, checked under DelaySpec *)

\* C17: RouteDelay never holds two rows with the same route id and hour of
\* day, whatever requests and cycles have run
C17_OneRowPerRouteHour ==
    \A i, j \in 1..Len(route_delays) :
        ( /\ route_delays[i].route_id = route_delays[j].route_id
          /\ route_delays[i].hour_of_day = route_delays[j].hour_of_day ) => i = j

\* the rows get_delay_history(route_id, hours) returns in the current state
HistoryRows(route_id, hours) ==
    { i \in 1..Len(route_delays) :
        /\ route_delays[i].route_id = route_id
        /\ route_delays[i].calculated_at >= now - hours * 3600 }

\* a step of a request: it enters calculate_route_delays only with an empty
\* history; it responds at once only with a history that is not empty, after
\* one read and without a write; after the run it responds with reread
DelayRequestStep(reread) ==
    /\ \A s \in 1..NCalls :
         /\ (reqs[s].pc = "idle" /\ reqs'[s].pc = "calc") =>
                HistoryRows(reqs'[s].route_id, reqs'[s].hours) = {}
         /\ (reqs[s].pc = "calc" /\ reqs'[s].pc = "idle") =>
                /\ calc'.kind = "api"
                /\ calc'.runs = 1
                /\ reread
    /\ (reqs' = reqs /\ calc' # calc /\ calc'.kind = "api") =>
           /\ HistoryRows(calc'.route_id, calc'.hours) # {}
           /\ calc'.runs = 0
           /\ calc'.reads = 1
           /\ route_delays' = route_delays

\* C19 as stated: a request recomputes exactly when its history is empty;
\* with a history it writes nothing; without one calculate_route_delays runs
\* once and the history is read again
C19_Original == [][DelayRequestStep(calc'.reads = 2)]_vars

\* C19: a request recomputes exactly when its history is empty; with a
\* history it writes nothing; without one calculate_route_delays runs once
\* and, unless that run raises, the history is read again; if it raises the
\* request responds the empty history it had read and RouteDelay is as before
C19_RecomputeWhenEmpty ==
    [][DelayRequestStep(IF calc'.raised
                        THEN /\ calc'.reads = 1
                             /\ calc'.delays = <<>>
                             /\ route_delays' = route_delays
                        ELSE calc'.reads = 2)]_vars

\* a request was answered from the rows an earlier request had computed,
\* without a run, although newer events of the route exist
C19_Witness ==
    /\ calc.kind = "api" /\ calc.runs = 0 /\ calc.reads = 1
    /\ calc.delays # <<>>
    /\ \E i \in 1..Len(route_delays), k \in 1..Len(events) :
         /\ route_delays[i].route_id = calc.route_id
         /\ events[k].route_id = calc.route_id
         /\ events[k].timestamp > route_delays[i].calculated_at

----------------------------------------------------------------------------
(* Properties of detect_bunching, checked under BunchingSpec *)

\* the vehicles of the route updated within the trailing 5 minutes, whatever
\* their position
RouteVehiclesInWindow(route_id) ==
    { i \in 1..Len(vehicles) :
        /\ vehicles[i].route_id = route_id
        /\ vehicles[i].last_updated >= now - 300 }

\* one [vehicle_1, vehicle_2, gap] for each adjacent pair of ord whose gap is
\* strictly between 0 and 180 seconds
BunchedPairs(ord) ==
    LET at(i) == [vehicle_1 |-> ord[i].vehicle_id, vehicle_2 |-> ord[i + 1].vehicle_id,
                  gap |-> ord[i + 1].last_updated - ord[i].last_updated]
        all   == [ i \in 1..(Len(ord) - 1) |-> at(i) ]
    IN  SelectSeq(all, LAMBDA a : 0 < a.gap /\ a.gap < 180)

\* C20: the alerts detect_bunching(route) returned are, for an order by
\* update time of the vehicles of the route updated within the trailing 5
\* minutes, one alert for each adjacent pair with a gap strictly between 0
\* and 180 seconds and no other, whatever positions the vehicles carry
C20_BunchingPairs ==
    bunch.pc = "done" =>
        \E ord \in OrderByLastUpdated(vehicles, RouteVehiclesInWindow(bunch.route_id)) :
            [ i \in 1..Len(bunch.alerts) |->
                [vehicle_1 |-> bunch.alerts[i].vehicle_1,
                 vehicle_2 |-> bunch.alerts[i].vehicle_2,
                 gap |-> bunch.alerts[i].time_between_seconds] ]
              = BunchedPairs(ord)

----------------------------------------------------------------------------
(* Properties of the tables the collector writes, checked under Spec *)

\* the positions of the events of vehicle vid
EventsOf(evs, vid) == { k \in 1..Len(evs) : evs[k].vehicle_id = vid }

\* the vehicle ids of the snapshots of a cycle
SnapIds(snaps) == { snaps[k].vehicle_id : k \in 1..Len(snaps) }

\* a cycle commits in this step
CycleCommits ==
    /\ \E s \in Slots : CycleEnds(s)
    /\ last'.outcome = "committed"

\* C25: every row of vehicles carries route id, latitude, longitude, speed,
\* status and last_updated of the last event of its vehicle, and no event of
\* the vehicle is more recent than that one
C25_RowMatchesLatestEvent ==
    \A i \in 1..Len(vehicles) :
        LET mine == EventsOf(events, vehicles[i].vehicle_id)
        IN  /\ mine # {}
            /\ \E m \in mine :
                 /\ \A k \in mine : k <= m /\ events[k].timestamp <= events[m].timestamp
                 /\ vehicles[i].route_id = events[m].route_id
                 /\ vehicles[i].latitude = events[m].latitude
                 /\ vehicles[i].longitude = events[m].longitude
                 /\ vehicles[i].speed = events[m].speed
                 /\ vehicles[i].current_status = events[m].current_status
                 /\ vehicles[i].last_updated = events[m].timestamp

\* a vehicle was collected twice with different speed and status; its row
\* carries the second values
C25_Witness ==
    /\ Len(events) = 2 /\ Len(vehicles) = 1
    /\ events[1].vehicle_id = events[2].vehicle_id
    /\ events[1].speed # events[2].speed
    /\ events[1].current_status # events[2].current_status
    /\ vehicles[1].speed = events[2].speed

\* C26: no step removes a row of vehicles or moves it to another vehicle, and
\* a cycle that commits leaves every row of a vehicle that is not among its
\* snapshots as it was
C26_AbsentVehiclesUntouched ==
    [][ /\ Len(vehicles') >= Len(vehicles)
        /\ \A i \in 1..Len(vehicles) :
             /\ vehicles'[i].vehicle_id = vehicles[i].vehicle_id
             /\ (CycleCommits /\ vehicles[i].vehicle_id \notin SnapIds(last'.snaps))
                   => vehicles'[i] = vehicles[i]
             /\ ~CycleCommits => vehicles'[i] = vehicles[i]
      ]_vars

\* a cycle without v1 has committed after the clock moved on; the row of v1
\* still carries the time of the earlier cycle
C26_Witness ==
    /\ last.outcome = "committed"
    /\ "v1" \notin SnapIds(last.snaps)
    /\ \E i \in 1..Len(vehicles) :
         /\ vehicles[i].vehicle_id = "v1"
         /\ vehicles[i].last_updated < events[Len(events)].timestamp

\* C28: last_updated of a row never decreases, and a cycle that commits sets
\* last_updated of every vehicle among its snapshots to its collection time,
\* which no last_updated in the table exceeds
C28_LastUpdatedMonotonic ==
    [][ /\ \A i \in 1..Len(vehicles) :
             vehicles'[i].last_updated >= vehicles[i].last_updated
        /\ CycleCommits =>
             /\ \A i \in 1..Len(vehicles') :
                  vehicles'[i].vehicle_id \in SnapIds(last'.snaps)
                      => vehicles'[i].last_updated = now
             /\ \A i \in 1..Len(vehicles) : vehicles[i].last_updated <= now
      ]_vars

\* v2 was in the table since time 0 and a later cycle has moved its
\* last_updated forward
C28_Witness ==
    /\ last.outcome = "committed"
    /\ "v2" \in SnapIds(last.snaps)
    /\ \E i \in 1..Len(vehicles), k \in 1..Len(events) :
         /\ vehicles[i].vehicle_id = "v2"
         /\ events[k].vehicle_id = "v2"
         /\ events[k].timestamp = 0
         /\ vehicles[i].last_updated > 0

\* C30: vehicles and events change only in the step in which a cycle commits,
\* and the state after that step holds all writes of the cycle: one new event
\* per snapshot and, for each of them, the row of its vehicle with the time of
\* the event. No state holds a part of the writes of a cycle
C30_CycleVisibleAtOnce ==
    [][ (vehicles' # vehicles \/ events' # events) =>
          /\ CycleCommits
          /\ Len(events') = Len(events) + Len(last'.snaps)
          /\ SubSeq(events', 1, Len(events)) = events
          /\ \A k \in 1..Len(last'.snaps) :
               LET e == events'[Len(events) + k]
               IN  /\ e.vehicle_id = last'.snaps[k].vehicle_id
                   /\ \E i \in 1..Len(vehicles') :
                        /\ vehicles'[i].vehicle_id = e.vehicle_id
                        /\ vehicles'[i].last_updated = e.timestamp
      ]_vars

\* a cycle has committed an insert, an update and two events together
C30_Witness ==
    /\ last.outcome = "committed"
    /\ Len(last.snaps) = 2
    /\ Len(events) = 3
    /\ Len(vehicles) = 2
    /\ events[1].timestamp < events[2].timestamp
    /\ \A i \in 1..2 : vehicles[i].last_updated = events[3].timestamp

----------------------------------------------------------------------------
(* Properties of the alert detectors and of the health check, checked      *)
(* under AlertsSpec, in which the tables do not change                      *)

\* the positions of the alerts of the response that name vehicle vid
AlertsOf(vid, type) ==
    { k \in 1..Len(api.alerts) :
        api.alerts[k].type = type /\ api.alerts[k].vehicle_id = vid }

C22_StalledSystemWide ==
    api.op = "alerts" =>
        /\ \A i \in 1..Len(vehicles) :
             ( /\ vehicles[i].current_status = "IN_TRANSIT_TO"
               /\ vehicles[i].last_updated < now - 600 )
                 => \E k \in AlertsOf(vehicles[i].vehicle_id, "stalled") :
                        /\ api.alerts[k].severity = "info"
                        /\ api.alerts[k].route_id = vehicles[i].route_id
        /\ \A k \in 1..Len(api.alerts) :
             (api.route_id # Null /\ api.alerts[k].type \in {"bunching", "speed_anomaly"})
                 => api.alerts[k].route_id = api.route_id

\* a request for Blue was answered with a speed alert of Blue and a stalled
\* alert of a vehicle of Red
C22_Witness ==
    /\ api.op = "alerts" /\ api.route_id = "Blue"
    /\ \E k, m \in 1..Len(api.alerts) :
         /\ api.alerts[k].type = "stalled" /\ api.alerts[k].route_id = "Red"
         /\ api.alerts[m].type = "speed_anomaly" /\ api.alerts[m].route_id = "Blue"

\* the number the character codes of decimal digits stand for
RECURSIVE Number(_)
Number(codes) ==
    IF codes = <<>> THEN 0 ELSE 10 * Number(SubSeq(codes, 1, Len(codes) - 1))
                                  + (codes[Len(codes)] - 48)

\* the instant an isoformat string stands for, in microseconds
Instant(iso) ==
    1000000 * Number(SubSeq(iso, 1, 4))
        + (IF Len(iso) > 4 THEN Number(SubSeq(iso, 6, Len(iso))) ELSE 0)

\* C23: in the response of get_alerts no info alert precedes a warning alert,
\* alerts of the same severity are in ascending order of their timestamps,
\* and every alert is a warning or an info alert
C23_AlertOrder ==
    api.op = "alerts" =>
        /\ \A k \in 1..Len(api.alerts) : api.alerts[k].severity \in {"warning", "info"}
        /\ \A i, j \in 1..Len(api.alerts) :
             i < j =>
               /\ ~(api.alerts[i].severity = "info" /\ api.alerts[j].severity = "warning")
               /\ api.alerts[i].severity = api.alerts[j].severity
                    => Instant(api.alerts[i].timestamp) <= Instant(api.alerts[j].timestamp)

\* two warnings, one stamped on a full second and one within the second
\* before it, then an info alert
C23_Witness ==
    /\ api.op = "alerts"
    /\ Len(api.alerts) = 3
    /\ api.alerts[1].severity = "warning" /\ Len(api.alerts[1].timestamp) > 4
    /\ api.alerts[2].severity = "warning" /\ Len(api.alerts[2].timestamp) = 4
    /\ api.alerts[3].severity = "info"

\* the collection time of the most recent committed cycle: every committed
\* cycle appends events with its collection time
LastCommitted ==
    IF events = <<>> THEN NoTime ELSE events[Len(events)].timestamp

\* C24: with the store reachable the health check reports unhealthy if no
\* cycle has committed or the last one committed more than 2 minutes ago,
\* reports healthy only if a cycle committed within the last 2 minutes, and
\* the last collection it reports is the time of the last committed cycle
C24_HealthReflectsLastCycle ==
    (api.op = "health" /\ api.database = "connected") =>
        /\ (LastCommitted = NoTime \/ now - LastCommitted > 120)
               => api.status = "unhealthy"
        /\ api.status = "healthy"
               => (LastCommitted # NoTime /\ now - LastCommitted <= 120)
        /\ LastCommitted # NoTime
               => Instant(api.last_collection) = 1000000 * LastCommitted

----------------------------------------------------------------------------
(* Properties of the store under all its operations, checked under         *)
(* StoreSpec                                                               *)

\* C27: telemetry_events is append-only: no step of a collection cycle, of a
\* delay recomputation, of an alert query, of a headway query or of a health
\* check changes or removes an event the table holds; a step only adds events
\* at the end
C27_EventsAppendOnly ==
    [][/\ Len(events') >= Len(events)
       /\ SubSeq(events', 1, Len(events)) = events]_vars

\* two cycles have committed, a delay recomputation has written its rows, and
\* a headway response and a health response are held
C27_Witness ==
    /\ Len(events) >= 2
    /\ route_delays # <<>>
    /\ hw # HwIdle
    /\ api.op = "health"

\* C29: a step of a handler (one that changes a request slot, the result of
\* a delay request or the response of a headway, alert or health request)
\* leaves vehicles and telemetry_events unchanged, and changes route_delays
\* only where a calculate_route_delays run ends; get_all_alerts, the headway
\* analysis, get_delay_history and the health check change no table
C29_QueriesDoNotWrite ==
    [][/\ (reqs' # reqs \/ calc' # calc \/ hw' # hw \/ api' # api \/ bunch' # bunch)
           => UNCHANGED <<vehicles, events>>
       /\ (hw' # hw \/ api' # api \/ bunch' # bunch)
           => UNCHANGED route_delays
       /\ route_delays' # route_delays
           => \E s \in 1..NCalls : reqs[s].pc = "calc" /\ reqs'[s].pc = "idle"
       /\ (calc' # calc /\ calc'.runs = 0)
           => UNCHANGED route_delays]_vars

\* a recomputation has written rows to route_delays, the vehicles table
\* holds a stalled vehicle, and an alerts response reporting it is held
C29_Witness ==
    /\ route_delays # <<>>
    /\ api.op = "alerts"
    /\ api.count > 0
    /\ vehicles # <<>>

----------------------------------------------------------------------------
(* Properties of start() and stop(), checked under Spec *)

\* the jobs registered under JobId
JobsWithId == { i \in 1..Len(scheduler.jobs) : scheduler.jobs[i] = JobId }

\* C31: the collector goes Stopped -> Running -> Stopped: is_running is true
\* exactly when the scheduler is started and at most one job has the id
\* telemetry_collection; while the collector stays Running (start() while
\* Running) and while it stays Stopped (stop() while Stopped) the scheduler
\* and its jobs do not change
C31_StartStop ==
    /\ [](/\ is_running <=> scheduler.state = "running"
          /\ Cardinality(JobsWithId) <= 1)
    /\ [][/\ (is_running /\ is_running') => scheduler' = scheduler
          /\ (~is_running /\ ~is_running') => scheduler' = scheduler
          /\ (~is_running /\ is_running') => scheduler'.state = "running"
          /\ (is_running /\ ~is_running') => scheduler'.state = "stopped"]_vars

\* the collector has been started and stopped, a cycle of the run has ended,
\* and the job is still registered
C31_Witness ==
    /\ ~is_running
    /\ scheduler.state = "stopped"
    /\ Cardinality(JobsWithId) = 1
    /\ last.outcome # "none"

----------------------------------------------------------------------------
(* Properties of the events of one cycle, checked under Spec *)

\* the events the last cycle appended
LastAdded == SubSeq(events, Len(events) - last.added + 1, Len(events))

\* C34: a cycle that commits appends exactly one event for each vehicle id of
\* its response, every one with the collection time of the cycle, so that no
\* vehicle gets two events of the cycle with the same timestamp
C34_OneEventPerVehicle ==
    last.outcome = "committed" =>
        /\ \A vid \in SnapIds(last.snaps) :
              Cardinality({ i \in 1..Len(LastAdded) : LastAdded[i].vehicle_id = vid }) = 1
        /\ \A i, j \in 1..Len(LastAdded) :
              /\ LastAdded[i].timestamp = LastAdded[j].timestamp
              /\ (LastAdded[i].vehicle_id = LastAdded[j].vehicle_id => i = j)

----------------------------------------------------------------------------
(* Properties of the rows and of the samples of calculate_route_delays,    *)
(* checked under CalcSpec                                                  *)

\* the events of route_id a run called with hours at time t reads
RunWindow(route_id, hours, t) ==
    SelectSeq(events, LAMBDA e : e.route_id = route_id /\ e.timestamp >= t - hours * 3600)

\* C35: a call of calculate_route_delays(route) leaves every row of another
\* route and every row of an hour without a qualifying gap exactly as it was,
\* removes no row, and adds rows only for its route and only for hours in
\* which a vehicle has at least 2 events in the bucket
C35_DelayRowsFrame ==
    [][LET rid  == calc'.route_id
           win  == RunWindow(rid, calc'.hours, now)
           n    == Len(route_delays)
       IN  /\ Len(route_delays') >= n
           /\ \A i \in 1..n :
                (\/ route_delays[i].route_id # rid
                 \/ HourPairs(win, route_delays[i].hour_of_day) = {})
                    => route_delays'[i] = route_delays[i]
           /\ \A i \in (n + 1)..Len(route_delays') :
                /\ route_delays'[i].route_id = rid
                /\ HourPairs(win, route_delays'[i].hour_of_day) # {}]_vars

\* a run has written a row for an hour with a gap, and has read an event of
\* an hour without one, for which there is no row
C35_Witness ==
    /\ calc.kind = "direct" /\ ~calc.raised /\ calc.inserts >= 1
    /\ \E i \in 1..Len(route_delays) : route_delays[i].route_id = calc.route_id
    /\ \E k \in 1..Len(calc.window) :
         /\ HourPairs(calc.window, Hour(calc.window[k].timestamp)) = {}
         /\ DelayRows(route_delays, calc.route_id, Hour(calc.window[k].timestamp)) = {}

\* C37: every gap calculate_route_delays uses as a sample lies between two
\* events of one vehicle in the same clock hour of the same day, and so is
\* at least 0 and less than 60 minutes, whatever hours_back is
C37_GapsWithinOneHour ==
    calc.kind = "direct" =>
        \A hour \in 0..23 :
            \A p \in HourPairs(calc.window, hour) :
                /\ calc.window[p[1]].timestamp \div 3600
                     = calc.window[p[2]].timestamp \div 3600
                /\ calc.window[p[2]].timestamp - calc.window[p[1]].timestamp >= 0
                /\ calc.window[p[2]].timestamp - calc.window[p[1]].timestamp < 3600

----------------------------------------------------------------------------
(* Properties of the statistics of GET /analytics/headway, checked under   *)
(* HeadwayRunSpec                                                          *)

\* C36: in the output of a route, count, mean, min and max are those of all
\* the headways the route emitted, the returned list is the first 100 of
\* them in the order of emission, and a route that emitted none is not in
\* the output
C36_HeadwayStatistics ==
    hw.pc = "done" =>
        \A r \in DOMAIN hw.analysis :
            LET all == hw.headways_by_route[r]
                out == hw.analysis[r]
            IN  /\ r \in hw.routes <=> all # <<>>
                /\ r \notin hw.routes => out = NoStats
                /\ r \in hw.routes =>
                     /\ out.count = Len(all)
                     /\ out.avg_minutes = RatMean(all)
                     /\ \E i \in 1..Len(all) : out.min_minutes = all[i]
                     /\ \E i \in 1..Len(all) : out.max_minutes = all[i]
                     /\ \A i \in 1..Len(all) :
                          /\ RatLeq(out.min_minutes, all[i])
                          /\ RatLeq(all[i], out.max_minutes)
                     /\ Len(out.headways) = (IF Len(all) < 100 THEN Len(all) ELSE 100)
                     /\ \A i \in 1..Len(out.headways) : out.headways[i] = all[i]

\* a route emitted more than 100 headways, the largest of which is not among
\* the first 100
C36_Witness ==
    /\ hw.pc = "done"
    /\ "Red" \in hw.routes
    /\ Len(hw.headways_by_route["Red"]) > 100
    /\ Len(hw.analysis["Red"].headways) = 100
    /\ \A i \in 1..100 :
         hw.analysis["Red"].headways[i] # hw.analysis["Red"].max_minutes

----------------------------------------------------------------------------
(* Properties of the pairs of detect_bunching, checked under BunchingSpec *)

\* the collection time of the cycle that last wrote the row of vehicle vid:
\* the timestamp of its latest event
LastCycleOf(vid) ==
    LET idx == EventsOf(events, vid)
    IN  events[CHOOSE k \in idx : \A m \in idx : m <= k].timestamp

\* C38: rows last written by the same cycle carry the same last_updated, and
\* the two vehicles of every bunching alert were last written by different
\* cycles
C38_NoPairWithinOneCycle ==
    /\ \A i, j \in 1..Len(vehicles) :
          LastCycleOf(vehicles[i].vehicle_id) = LastCycleOf(vehicles[j].vehicle_id)
              => vehicles[i].last_updated = vehicles[j].last_updated
    /\ bunch.pc = "done" =>
          \A k \in 1..Len(bunch.alerts) :
              LastCycleOf(bunch.alerts[k].vehicle_1) # LastCycleOf(bunch.alerts[k].vehicle_2)

\* one cycle wrote two vehicles of the route with positions, a later cycle a
\* third, and detect_bunching has returned an alert
C38_Witness ==
    /\ bunch.pc = "done"
    /\ Len(bunch.alerts) >= 1
    /\ \E i, j \in 1..Len(vehicles) :
         /\ i # j
         /\ vehicles[i].route_id = bunch.route_id
         /\ vehicles[j].route_id = bunch.route_id
         /\ vehicles[i].last_updated = vehicles[j].last_updated
         /\ vehicles[i].latitude = 42 /\ vehicles[j].latitude = 42

----------------------------------------------------------------------------
(* Termination of the cycles, checked under LiveSpec *)

\* C39: every cycle the scheduler started ends, whatever the upstream and
\* the store do, so that its instance is released; and while the collector
\* is Running and no cycle is in flight, a new cycle starts
C39_CyclesTerminate ==
    /\ \A s \in Slots : (slots[s].pc # "idle") ~> (slots[s].pc = "idle")
    /\ (is_running /\ Busy = {}) ~> (Busy # {} \/ ~is_running)

\* a cycle has committed, and the cycle started after it is in its third
\* attempt while a tick was dropped
C39_Witness ==
    /\ events # <<>>
    /\ \E s \in Slots :
         /\ slots[s].pc = "awaiting"
         /\ slots[s].attempt = 2
         /\ slots[s].dropped

----------------------------------------------------------------------------
(* Properties of RouteAnalyzer, checked under AnalyzerSpec *)

\* the trips of the route, and those of them with status COMPLETED
TripsOf(route_id) == { t \in db.trips : t.route_id = route_id }
CompletedOf(route_id) == { t \in TripsOf(route_id) : t.status = "COMPLETED" }

\* C32: calculate_completion_rate(route) returns the number of trips of the
\* route with status COMPLETED divided by the number of trips of the route,
\* a value in [0, 1], and 0 for a route without trips
C32_CompletionRate ==
    analyzer.op = "completion_rate" =>
        LET n == Cardinality(TripsOf(analyzer.route_id))
            c == Cardinality(CompletedOf(analyzer.route_id))
        IN  /\ n = 0 => analyzer.value.num = 0
            /\ n > 0 => analyzer.value.num * n = c * analyzer.value.den
            /\ 0 <= analyzer.value.num /\ analyzer.value.num <= analyzer.value.den

\* the rows of vehicles of the route in an order by timestamp
PositionOrders(route_id) ==
    LET rows == { v \in db.vehicles : v.route_id = route_id }
        n    == Cardinality(rows)
    IN  { ord \in [1..n -> rows] :
            /\ \A i, j \in 1..n : i # j => ord[i] # ord[j]
            /\ \A i \in 1..(n - 1) : ord[i].timestamp <= ord[i + 1].timestamp }

----------------------------------------------------------------------------
(* Properties of collect_all, checked under CollectSpec *)

\* coroutine c takes a step
Runs(c) == tasks # <<>> /\ tasks' # <<>> /\ tasks'[c] # tasks[c]

\* C40: the writes of the coroutines of collect_all are isolated from each
\* other: a step of one coroutine commits rows of its own table only, and
\* the pending rows it discards are rows it merged itself
C40_CollectorsIsolated ==
    [][\A c \in Collectors :
         (Runs(c) /\ \A o \in Collectors \ {c} : tasks'[o] = tasks[o]) =>
            /\ \A t \in DOMAIN db : t # c => db'[t] = db[t]
            /\ \A p \in session \ session' : p.table = c]_vars

====
